---- MODULE Spec2Model ----
(***************************************************************************)
(* Progressive schema-knowledge engine: the SchemaBuilder (learning queue, *)
(* extraction), the schema parser's merge functions and the IndexedDB      *)
(* schema store.                                                           *)
(*                                                                         *)
(* Data representation                                                     *)
(*   ColumnInfo  [id, name, type, description, isPrimaryKey, isForeignKey, *)
(*                isNullable, hasExamples, examples]                       *)
(*               description "" stands for undefined/empty (both falsy);   *)
(*               hasExamples = FALSE stands for examples === undefined.    *)
(*   TableInfo   [id, name, description, columns]                          *)
(*   SchemaCache [isNull, lastUpdated, tables, relationships]              *)
(*   ids are naturals: ids read from the page are small numbers, ids made  *)
(*   by uuidv4() are UuidBase + a counter (fresh, never colliding); ids    *)
(*   between the two were made by uuidv4() in an earlier session.          *)
(***************************************************************************)
EXTENDS Naturals, Integers, Sequences, FiniteSets, TLC

(***************************************************************************)
(* Generic sequence helpers (Array.prototype / Set semantics)              *)
(***************************************************************************)

\* the set of elements of a sequence
Range(s) == {s[i] : i \in 1..Len(s)}

\* a copy that keeps the duplicates
DedupKeepsAll(s0) == s0

\* new Set([...s]) followed by Array.from: first occurrences, in order
Dedup(s0) ==
  CHOOSE d \in
    { [k \in 1..Cardinality(first) |->
         s[CHOOSE i \in first : Cardinality({j \in first : j < i}) = k - 1]]
      : s \in {s0},
        first \in {{i \in 1..Len(s0) : \A j \in 1..(i - 1) : s0[j] # s0[i]}} } : TRUE

\* Array.prototype.slice(0, n)
Slice(s, n) == SubSeq(s, 1, IF Len(s) < n THEN Len(s) ELSE n)

\* String.prototype.toLowerCase on the names used by the model
toLowerCase(s) ==
  CASE s = "Users"  -> "users"
    [] s = "Orders" -> "orders"
    [] s = "ID"     -> "id"
    [] OTHER        -> s

\* least index i with P-by-name match, 0 when none (Array.prototype.find)
FindByName(seq, name) ==
  LET hits == {i \in 1..Len(seq) : toLowerCase(seq[i].name) = toLowerCase(name)}
  IN  IF hits = {} THEN 0 ELSE CHOOSE i \in hits : \A j \in hits : i <= j

\* new Map(seq.map(x => [x.id, x])).get(id): the LAST entry with that id
\* wins; 0 when the id is not a key
MapGetById(seq, id) ==
  LET hits == {i \in 1..Len(seq) : seq[i].id = id}
  IN  IF hits = {} THEN 0 ELSE CHOOSE i \in hits : \A j \in hits : i >= j

\* Array.prototype.find by id: the least index, 0 when none
FindById(seq, id) ==
  LET hits == {i \in 1..Len(seq) : seq[i].id = id}
  IN  IF hits = {} THEN 0 ELSE CHOOSE i \in hits : \A j \in hits : i <= j

(***************************************************************************)
(* Schema parser: merge functions                                          *)
(***************************************************************************)

UuidBase == 100

NullSchema ==
  [isNull |-> TRUE, lastUpdated |-> 0, tables |-> <<>>, relationships |-> <<>>]

\* mergeColumnInfo that assigns the key flags of the new column
mergeColumnInfoAssignsKeys(existingColumn, newColumn) ==
  [existingColumn EXCEPT
     !.description =
        IF newColumn.description # "" /\ existingColumn.description = ""
          THEN newColumn.description ELSE @,
     !.type =
        IF existingColumn.type = "unknown" /\ newColumn.type # "unknown"
          THEN newColumn.type ELSE @,
     !.isPrimaryKey = newColumn.isPrimaryKey,
     !.isForeignKey = newColumn.isForeignKey,
     !.isNullable =
        IF ~existingColumn.isNullable /\ newColumn.isNullable THEN TRUE ELSE @,
     !.hasExamples =
        IF newColumn.hasExamples /\ Len(newColumn.examples) > 0 THEN TRUE ELSE @,
     !.examples =
        IF newColumn.hasExamples /\ Len(newColumn.examples) > 0
          THEN IF ~existingColumn.hasExamples
                 THEN newColumn.examples
                 ELSE Dedup(existingColumn.examples \o newColumn.examples)
          ELSE @]

\* mergeColumnInfo(existingColumn, newColumn): the merged existing column
mergeColumnInfo(existingColumn, newColumn) ==
  [existingColumn EXCEPT
     !.description =
        IF newColumn.description # "" /\ existingColumn.description = ""
          THEN newColumn.description ELSE @,
     !.type =
        IF existingColumn.type = "unknown" /\ newColumn.type # "unknown"
          THEN newColumn.type ELSE @,
     !.isPrimaryKey = IF newColumn.isPrimaryKey THEN TRUE ELSE @,
     !.isForeignKey = IF newColumn.isForeignKey THEN TRUE ELSE @,
     !.isNullable =
        IF ~existingColumn.isNullable /\ newColumn.isNullable THEN TRUE ELSE @,
     !.hasExamples =
        IF newColumn.hasExamples /\ Len(newColumn.examples) > 0 THEN TRUE ELSE @,
     !.examples =
        IF newColumn.hasExamples /\ Len(newColumn.examples) > 0
          THEN IF ~existingColumn.hasExamples
                 THEN newColumn.examples
                 ELSE Dedup(existingColumn.examples \o newColumn.examples)
          ELSE @]

\* the column loop of mergeTableInfo: the lookup map is built from the
\* columns the table had before the loop (its first nOrig entries)
RECURSIVE MergeColumns(_, _, _)
MergeColumns(columns, nOrig, newColumns) ==
  IF newColumns = <<>> THEN columns
  ELSE LET newColumn == Head(newColumns)
           i == MapGetById(SubSeq(columns, 1, nOrig), newColumn.id)
           next == IF i = 0
                     THEN Append(columns, newColumn)
                     ELSE [columns EXCEPT ![i] = mergeColumnInfo(@, newColumn)]
       IN  MergeColumns(next, nOrig, Tail(newColumns))

\* mergeTableInfo(existingTable, newTable): the merged existing table
mergeTableInfo(existingTable, newTable) ==
  [existingTable EXCEPT
     !.description =
        IF newTable.description # "" /\ existingTable.description = ""
          THEN newTable.description ELSE @,
     !.columns = MergeColumns(@, Len(@), newTable.columns)]

\* the table loop of mergeWithExistingSchema: lookup by id only, in the
\* tables the existing schema had before the loop
RECURSIVE MergeTables(_, _, _)
MergeTables(tables, nOrig, newTables) ==
  IF newTables = <<>> THEN tables
  ELSE LET newTable == Head(newTables)
           i == MapGetById(SubSeq(tables, 1, nOrig), newTable.id)
           next == IF i = 0
                     THEN Append(tables, newTable)
                     ELSE [tables EXCEPT ![i] = mergeTableInfo(@, newTable)]
       IN  MergeTables(next, nOrig, Tail(newTables))

\* the relationship loop of mergeWithExistingSchema: append when the id is
\* not among the relationships the existing schema had before the loop
RECURSIVE MergeRelationships(_, _, _)
MergeRelationships(rels, nOrig, newRels) ==
  IF newRels = <<>> THEN rels
  ELSE LET newRel == Head(newRels)
           i == MapGetById(SubSeq(rels, 1, nOrig), newRel.id)
           next == IF i = 0 THEN Append(rels, newRel) ELSE rels
       IN  MergeRelationships(next, nOrig, Tail(newRels))

\* the synchronous body of mergeWithExistingSchema between the read of the
\* stored schema and the save: existingSchema after the loops, stamped t
mergeWithExistingSchema(existingSchema, newSchema, t) ==
  [isNull |-> FALSE,
   lastUpdated |-> t,
   tables |-> MergeTables(existingSchema.tables, Len(existingSchema.tables),
                          newSchema.tables),
   relationships |-> MergeRelationships(existingSchema.relationships,
                                        Len(existingSchema.relationships),
                                        newSchema.relationships)]

(***************************************************************************)
(* SchemaBuilder.diffSchema.  The maps keyed by table id are sequences of  *)
(* [tableId, columns] entries in insertion order.                          *)
(***************************************************************************)

NoDiff ==
  [newTables |-> <<>>, modifiedTables |-> <<>>, removedTables |-> <<>>,
   newColumns |-> <<>>, modifiedColumns |-> <<>>, removedColumns |-> <<>>,
   newRelationships |-> <<>>, modifiedRelationships |-> <<>>,
   removedRelationships |-> <<>>]

Ids(seq) == {seq[i].id : i \in 1..Len(seq)}

Names(seq) == [i \in 1..Len(seq) |-> seq[i].name]

\* map[tableId] = columns
SetKey(map, tableId, columns) ==
  IF \E k \in 1..Len(map) : map[k].tableId = tableId
    THEN [k \in 1..Len(map) |->
            IF map[k].tableId = tableId THEN [map[k] EXCEPT !.columns = columns]
            ELSE map[k]]
    ELSE Append(map, [tableId |-> tableId, columns |-> columns])

\* JSON.stringify(newTable) !== JSON.stringify(currentTable)
IsModified(newTable, currentTable) == newTable # currentTable

\* the "modified tables and columns" loop of diffSchema over newTables
RECURSIVE DiffTables(_, _, _)
DiffTables(diff, currentTables, newTables) ==
  IF newTables = <<>> THEN diff
  ELSE
    LET newTable == Head(newTables)
        c == FindById(currentTables, newTable.id)
        currentTable == currentTables[c]
        newColumns ==
          Names(SelectSeq(newTable.columns,
                          LAMBDA col : col.id \notin Ids(currentTable.columns)))
        removedColumns ==
          Names(SelectSeq(currentTable.columns,
                          LAMBDA col : col.id \notin Ids(newTable.columns)))
        modifiedColumns ==
          Names(SelectSeq(newTable.columns, LAMBDA col :
                  /\ FindById(currentTable.columns, col.id) # 0
                  /\ col # currentTable.columns[FindById(currentTable.columns, col.id)]))
    IN  DiffTables(
          IF c # 0 /\ IsModified(newTable, currentTable)
            THEN [diff EXCEPT
                    !.modifiedTables = Append(@, newTable.name),
                    !.newColumns =
                       IF Len(newColumns) > 0
                         THEN SetKey(@, newTable.id, newColumns) ELSE @,
                    !.removedColumns =
                       IF Len(removedColumns) > 0
                         THEN SetKey(@, newTable.id, removedColumns) ELSE @,
                    !.modifiedColumns =
                       IF Len(modifiedColumns) > 0
                         THEN SetKey(@, newTable.id, modifiedColumns) ELSE @]
            ELSE diff,
          currentTables, Tail(newTables))

\* diffSchema(newSchema) of a Builder whose currentSchema is current
diffSchema(current, newSchema) ==
  IF current.isNull
    THEN [NoDiff EXCEPT
            !.newTables = Names(newSchema.tables),
            !.newRelationships =
               [k \in 1..Len(newSchema.relationships) |-> newSchema.relationships[k].id]]
    ELSE
      LET IdsOf(rels) == [k \in 1..Len(rels) |-> rels[k].id]
          tables ==
            [NoDiff EXCEPT
               !.newTables =
                  Names(SelectSeq(newSchema.tables,
                                  LAMBDA t : t.id \notin Ids(current.tables))),
               !.removedTables =
                  Names(SelectSeq(current.tables,
                                  LAMBDA t : t.id \notin Ids(newSchema.tables)))]
      IN  [DiffTables(tables, current.tables, newSchema.tables) EXCEPT
             !.newRelationships =
                IdsOf(SelectSeq(newSchema.relationships,
                                LAMBDA r : r.id \notin Ids(current.relationships))),
             !.removedRelationships =
                IdsOf(SelectSeq(current.relationships,
                                LAMBDA r : r.id \notin Ids(newSchema.relationships))),
             !.modifiedRelationships =
                IdsOf(SelectSeq(newSchema.relationships, LAMBDA r :
                        /\ FindById(current.relationships, r.id) # 0
                        /\ r # current.relationships[FindById(current.relationships,
                                                              r.id)]))]

(***************************************************************************)
(* Type Inferencer.  Sampled cells are JavaScript values:                  *)
(*   "null" null, "n1" "n2" "n4" the numbers 1, 2, 4, "n2.5" the number    *)
(*   2.5, "sdate" the string "2024-01-01", "sdate2" the string             *)
(*   "2024-02-15", "sJan" the string "Jan 5, 2024", "sabc" the string      *)
(*   "abc", "btrue" the boolean true                                       *)
(***************************************************************************)

\* typeof v === 'number' || !isNaN(parseFloat(v)); parseFloat parses the
\* longest numeric prefix, so "2024-01-01" and "2024-02-15" parse to 2024
IsNumberLike(v) == v \in {"n1", "n2", "n4", "n2.5", "sdate", "sdate2"}

\* Number.isInteger(parseFloat(v))
IsIntegerLike(v) == v \in {"n1", "n2", "n4", "sdate", "sdate2"}

\* typeof v === 'boolean' || v === 'true' || v === 'false'
IsBooleanLike(v) == v = "btrue"

\* !isNaN(Date.parse(String(v))) (V8: "1", "2", "4" and "2.5" parse as
\* legacy dates)
IsDateLike(v) == v \in {"sdate", "sdate2", "sJan", "n1", "n2", "n4", "n2.5"}

\* String(v)
JSString(v) ==
  CASE v = "n1"    -> "1"
    [] v = "n2"    -> "2"
    [] v = "n4"    -> "4"
    [] v = "sdate2" -> "2024-02-15"
    [] v = "n2.5"  -> "2.5"
    [] v = "sdate" -> "2024-01-01"
    [] v = "sJan"  -> "Jan 5, 2024"
    [] v = "sabc"  -> "abc"
    [] v = "btrue" -> "true"
    [] OTHER       -> "null"

\* Array.prototype.filter(v => v !== null && v !== undefined)
NonNull(values) == SelectSeq(values, LAMBDA v : v # "null")

\* inferColumnType(values)
inferColumnType(values) ==
  CHOOSE type \in
    { LET allNumbers  == \A i \in 1..Len(nonNullValues) : IsNumberLike(nonNullValues[i])
          allIntegers == allNumbers /\
                         \A i \in 1..Len(nonNullValues) : IsIntegerLike(nonNullValues[i])
          allBooleans == \A i \in 1..Len(nonNullValues) : IsBooleanLike(nonNullValues[i])
          allDates    == \A i \in 1..Len(nonNullValues) : IsDateLike(nonNullValues[i])
      IN  IF Len(values) = 0 THEN "unknown"
          ELSE IF Len(nonNullValues) = 0 THEN "unknown"
          ELSE IF allIntegers THEN "integer"
          ELSE IF allNumbers THEN "number"
          ELSE IF allBooleans THEN "boolean"
          ELSE IF allDates THEN "date"
          ELSE "string"
      : nonNullValues \in {NonNull(values)} } : TRUE

(***************************************************************************)
(* SchemaBuilder: the synchronous body of a learning task.  The operators  *)
(* work on the tables array the task's updatedSchema refers to and thread  *)
(* the uuid counter; they return [tables, uuid].                           *)
(*                                                                         *)
(* The(...) with a singleton set built over "x \in {e}" binds x to the     *)
(* value of e once (a local constant), nothing more.                       *)
(***************************************************************************)

The(S) == CHOOSE r \in S : TRUE

SampleRows == 10
MaxNewExamples == 5
MaxExamples == 10

\* ensureColumnExists that finds the column missing and never pushes it
ensureColumnExistsNoPush(table, columnName, uuid) == table

\* ensureColumnExists(table, columnName): the table after the call
ensureColumnExists(table, columnName, uuid) ==
  IF FindByName(table.columns, columnName) # 0 THEN table
  ELSE [table EXCEPT !.columns =
          Append(@, [id |-> uuid, name |-> columnName, type |-> "unknown",
                     description |-> "", isPrimaryKey |-> FALSE,
                     isForeignKey |-> FALSE, isNullable |-> TRUE,
                     hasExamples |-> FALSE, examples |-> <<>>])]

\* the column loop of ensureTableExists; a pushed column takes one uuid
RECURSIVE EnsureColumns(_, _, _)
EnsureColumns(table0, columns, uuid0) ==
  The({ IF columns = <<>> THEN [table |-> table, uuid |-> uuid]
        ELSE The({ EnsureColumns(t, Tail(columns),
                                 IF Len(t.columns) > Len(table.columns)
                                   THEN uuid + 1 ELSE uuid)
                   : t \in {ensureColumnExists(table, Head(columns), uuid)} })
        : table \in {table0}, uuid \in {uuid0} })

\* ensureTableExists(schema, tableName, columns): [tables, uuid, index], index
\* being the position of the found or created table
ensureTableExists(tables0, tableName, columns, uuid0) ==
  The({ LET found   == FindByName(tables, tableName)
            tables1 == IF found # 0 THEN tables
                       ELSE Append(tables, [id |-> uuid, name |-> tableName,
                                            description |-> "", columns |-> <<>>])
            uuid1   == IF found # 0 THEN uuid ELSE uuid + 1
            index   == IF found # 0 THEN found ELSE Len(tables) + 1
        IN  The({ [tables |-> [tables1 EXCEPT ![index] = r.table], uuid |-> r.uuid,
                   index |-> index]
                  : r \in {EnsureColumns(tables1[index], columns, uuid1)} })
        : tables \in {tables0}, uuid \in {uuid0} })

\* the sampling loop of inferTypesFromData: the colIndex-th cell (1-based
\* here) of the first Math.min(10, data.length) rows, cells that are
\* undefined (row too short) skipped
SampleValues(data, colIndex) ==
  The({ [i \in 1..Len(rows) |-> rows[i][colIndex]]
        : rows \in {SelectSeq(Slice(data, SampleRows),
                              LAMBDA row : colIndex <= Len(row))} })

\* String(v) mapped over a sequence
MapJSString(values) == [i \in 1..Len(values) |-> JSString(values[i])]

\* the body of the loop of inferTypesFromData for one column of unknown type
InferColumn(column0, sampleValues0) ==
  The({ LET nonNullExamples == Slice(MapJSString(NonNull(sampleValues)), MaxNewExamples)
            hasNulls == \E i \in 1..Len(sampleValues) : sampleValues[i] = "null"
        IN  [column EXCEPT
               !.type = inferColumnType(sampleValues),
               !.hasExamples = TRUE,
               !.examples = IF Len(nonNullExamples) > 0
                              THEN Slice(Dedup(@ \o nonNullExamples), MaxExamples)
                              ELSE @,
               !.isNullable = hasNulls]
        : column \in {column0}, sampleValues \in {sampleValues0} })

\* inferTypesFromData that samples every column it finds
skipsKnownTypeNever(column) == FALSE

\* inferTypesFromData: "if (column.type !== 'unknown') continue"
skipsKnownType(column) == column.type # "unknown"

\* inferTypesFromData(table, columnNames, data), columns colIndex..end
RECURSIVE inferTypesFromData(_, _, _, _)
inferTypesFromData(table0, columnNames, data, colIndex) ==
  The({ IF colIndex > Len(columnNames) THEN table
        ELSE LET c == FindByName(table.columns, columnNames[colIndex])
             IN  inferTypesFromData(
                   IF c = 0 THEN table
                   ELSE IF skipsKnownType(table.columns[c]) THEN table
                   ELSE [table EXCEPT !.columns[c] =
                           InferColumn(@, SampleValues(data, colIndex))],
                   columnNames, data, colIndex + 1)
        : table \in {table0} })

\* the header loop of learnFromResults: a header is the sequence of parts
\* fullColumnName.split('.') gives; only two-part headers are kept, grouped
\* by table name in first-seen order (Map insertion order)
RECURSIVE TableColumnMap(_, _)
TableColumnMap(columns, map0) ==
  The({ IF columns = <<>> THEN map
        ELSE LET parts == Head(columns)
                 hits  == {i \in 1..Len(map) : map[i].table = parts[1]}
             IN  TableColumnMap(Tail(columns),
                   IF Len(parts) # 2 THEN map
                   ELSE IF hits = {}
                     THEN Append(map, [table |-> parts[1], columns |-> <<parts[2]>>])
                     ELSE [map EXCEPT ![The(hits)].columns = Append(@, parts[2])])
        : map \in {map0} })

\* the table loop of learnFromResults
RECURSIVE LearnTables(_, _, _, _)
LearnTables(tables0, map, data, uuid0) ==
  The({ IF map = <<>> THEN [tables |-> tables, uuid |-> uuid]
        ELSE The({ LearnTables(
                     [e.tables EXCEPT ![e.index] =
                        inferTypesFromData(@, Head(map).columns, data, 1)],
                     Tail(map), data, e.uuid)
                   : e \in {ensureTableExists(tables, Head(map).table,
                                              Head(map).columns, uuid)} })
        : tables \in {tables0}, uuid \in {uuid0} })

\* learnFromResults(schema, columns, data)
learnFromResults(tables, columns, data, uuid) ==
  IF Len(columns) = 0 \/ Len(data) = 0 THEN [tables |-> tables, uuid |-> uuid]
  ELSE LearnTables(tables, TableColumnMap(columns, <<>>), data, uuid)

\* the loop of the learning task over Object.entries(tablesAndColumns)
RECURSIVE EnsureTables(_, _, _)
EnsureTables(tables0, tablesAndColumns, uuid0) ==
  The({ IF tablesAndColumns = <<>> THEN [tables |-> tables, uuid |-> uuid]
        ELSE The({ EnsureTables(e.tables, Tail(tablesAndColumns), e.uuid)
                   : e \in {ensureTableExists(tables, Head(tablesAndColumns).table,
                                              Head(tablesAndColumns).columns, uuid)} })
        : tables \in {tables0}, uuid \in {uuid0} })

\* the body of learningTask up to "Update lastUpdated": what the task does
\* to the tables array it works on.  A query q carries tablesAndColumns
\* (the entries extractTablesAndColumnsFromSQL returned for its sql),
\* resultColumns and resultData.
learningTask(tables, q, uuid) ==
  The({ IF Len(q.resultColumns) > 0 /\ Len(q.resultData) > 0
          THEN learnFromResults(a.tables, q.resultColumns, q.resultData, a.uuid)
          ELSE a
        : a \in {EnsureTables(tables, q.tablesAndColumns, uuid)} })

(***************************************************************************)
(* Inputs                                                                  *)
(***************************************************************************)

MaxCalls == 3
MaxExtracts == 1
MaxTicks == 1
MaxOps == 3
TickMs == 90000000
MaxAgeMs == 86400000

Col(id, name, type, pk, fk, nullable) ==
  [id |-> id, name |-> name, type |-> type, description |-> "",
   isPrimaryKey |-> pk, isForeignKey |-> fk, isNullable |-> nullable,
   hasExamples |-> FALSE, examples |-> <<>>]

\* an ExtractedColumn
ExtractedCol(id, name, type, pk, fk, nullable) ==
  [id |-> id, name |-> name, type |-> type, description |-> "",
   isPrimaryKey |-> pk, isForeignKey |-> fk, isNullable |-> nullable]

\* what the page shows: extractSchema() tables and extractRelationships()
Extractions ==
  { [tables |-> << [id |-> 1, name |-> "users", description |-> "",
                    columns |-> << ExtractedCol(11, "id", "integer", TRUE, FALSE, FALSE) >>] >>,
     relationships |-> <<>>],
    [tables |-> << [id |-> 2, name |-> "Orders", description |-> "all orders",
                    columns |-> << ExtractedCol(21, "user_id", "unknown", FALSE, TRUE, TRUE) >>] >>,
     relationships |-> << [sourceTableId |-> 2, sourceColumnId |-> 21,
                           targetTableId |-> 1, targetColumnId |-> 11] >>] }

\* learnFromQuery arguments: the entries extractTablesAndColumnsFromSQL
\* returns for the sql, the result headers (split at '.') and the rows
Queries ==
  { [tablesAndColumns |-> << [table |-> "users", columns |-> <<"id">>] >>,
     resultColumns |-> << <<"Users", "name">> >>,
     resultData |-> << <<"null">>, <<"sabc">> >>],
    [tablesAndColumns |-> << [table |-> "orders", columns |-> <<>>] >>,
     resultColumns |-> <<>>,
     resultData |-> <<>>] }

\* the schema store before the Builder is constructed
InitialDbs ==
  { NullSchema,
    [isNull |-> FALSE, lastUpdated |-> TickMs,
     tables |-> << [id |-> 1, name |-> "users", description |-> "",
                    columns |-> << Col(11, "id", "unknown", FALSE, FALSE, TRUE) >>] >>,
     relationships |-> <<>>] }

\* learnFromQuery arguments for one column: a sample of integers, a sample
\* of nulls only and a sample of strings
LearnQueries ==
  Queries \cup
  { [tablesAndColumns |-> << [table |-> "users", columns |-> <<"id">>] >>,
     resultColumns |-> << <<"users", "id">> >>,
     resultData |-> << <<"n1">> >>],
    [tablesAndColumns |-> << [table |-> "users", columns |-> <<"id">>] >>,
     resultColumns |-> << <<"users", "id">> >>,
     resultData |-> << <<"null">> >>],
    [tablesAndColumns |-> << [table |-> "users", columns |-> <<"id">>] >>,
     resultColumns |-> << <<"users", "id">> >>,
     resultData |-> << <<"sabc">>, <<"sabc">> >>] }

\* existing snapshots a merge or a learning task meets: none, the stored one,
\* and one with a learned table (ids made by uuidv4 earlier)
Snapshots ==
  InitialDbs \cup
  { [isNull |-> FALSE, lastUpdated |-> TickMs,
     tables |-> << [id |-> 1, name |-> "users", description |-> "",
                    columns |-> << [Col(11, "id", "integer", TRUE, FALSE, FALSE)
                                      EXCEPT !.hasExamples = TRUE,
                                             !.examples = <<"7">>] >>],
                   [id |-> 51, name |-> "orders", description |-> "",
                    columns |-> << [Col(52, "user_id", "string", FALSE, FALSE, TRUE)
                                      EXCEPT !.hasExamples = TRUE,
                                             !.examples = <<"abc">>] >>] >>,
     relationships |-> <<>>] }

\* an observation with a description, another concrete type, examples and a
\* column more
UsersObservation ==
  [isNull |-> FALSE, lastUpdated |-> TickMs,
   tables |-> << [id |-> 1, name |-> "users", description |-> "people",
                  columns |-> << [Col(11, "id", "string", FALSE, FALSE, TRUE)
                                    EXCEPT !.hasExamples = TRUE,
                                           !.examples = <<"1", "2">>],
                                 Col(12, "name", "string", FALSE, FALSE, TRUE) >>] >>,
   relationships |-> <<>>]

\* an observation with nine examples for users.id
ExamplesObservation ==
  [isNull |-> FALSE, lastUpdated |-> TickMs,
   tables |-> << [id |-> 1, name |-> "users", description |-> "",
                  columns |-> << [Col(11, "id", "integer", TRUE, FALSE, FALSE)
                                    EXCEPT !.hasExamples = TRUE,
                                           !.examples = <<"11", "12", "13", "14", "15",
                                                          "16", "17", "18", "19">>] >>] >>,
   relationships |-> <<>>]

NoQuery == [tablesAndColumns |-> <<>>, resultColumns |-> <<>>, resultData |-> <<>>]
NoUpd == [lastUpdated |-> 0, tref |-> 0, relationships |-> <<>>, put |-> NullSchema,
          pre |-> NullSchema, by |-> 0, during |-> FALSE]

Calls == 1..MaxCalls
MaxRefs == MaxExtracts + 1

(***************************************************************************)
(* State                                                                   *)
(***************************************************************************)
VARIABLES
  db,             \* the 'schema' object store entry of this database id
  heap,           \* tables arrays in memory, by reference
  nextRef,        \* next unused reference
  currentSchema,  \* SchemaBuilder.currentSchema: [isNull, lastUpdated, tref, relationships]
  isBuilding,     \* SchemaBuilder.isBuilding
  learningQueue,  \* SchemaBuilder.learningQueue: the calls whose task is queued
  pc,             \* per learnFromQuery call: idle, dropped, draining, returned
  tstate,         \* per learning task: none, queued, running, ok, failed
  drainTask,      \* per call: the task its drain loop is awaiting (0: none)
  qOf,            \* per call: its arguments
  upd,            \* per task: updatedSchema, the value handed to db.put, the
                  \* in-memory snapshot as it was when the task started, the
                  \* call whose drain loop ran the task, and whether an
                  \* extractSchema call was under way when the task started
  started,        \* the order in which tasks started
  uuid,           \* uuidv4 counter
  now,            \* Date.now()
  initPc,         \* initialize(): new, loading, done (returned true), failed
  xpc,            \* extractSchema(): idle, check, extract, save, mergeRead, mergeSave
  xcount,         \* extractSchema calls made
  xlocal,         \* extractSchema locals: newSchema and the value handed to db.put
  xlog,           \* what the last refresh saw: the store before it, its result,
                  \* whether a save or the merge's read failed, how it settled,
                  \* the learning tasks in flight when it was called, whether
                  \* startSchemaExtraction made the call and the metadata then
  idb,            \* the store's connection: dbInstance, the openDB calls and
                  \* the transactions not yet settled, each in request order
  mS,             \* the snapshot merges and learning tasks are applied to in turn
  mPrev,          \* mS before the last application
  mLast,          \* the last application: merge or learn, and its argument
  mCount,         \* applications made
  mDiff,          \* diffSchema of the last merge's result against mPrev
  cArgs,          \* the last compressSchema call: schema, referencedTables, options
  compressed,     \* what that call returned
  iArgs,          \* the last sample handed to inferTypesFromData
  inferred,       \* the column that call left
  sqlArgs,        \* the last SQL text handed to extractTablesAndColumnsFromSQL
  tablesAndColumns, \* the mapping it returned, keys in insertion order
  builders,       \* useSchemaStore.builders: database id -> SchemaBuilder (0: none)
  hookBuilders,   \* per mounted useSchema hook: its memoized SchemaBuilder (0: not mounted)
  instances,      \* the SchemaBuilder objects constructed, by instance number
  schemaStore,    \* the 'schema' object store as those Builders see it, by database id
  metadata        \* useSchemaStore.extractionMetadata[databaseId] of this database id

vars == <<db, heap, nextRef, currentSchema, isBuilding, learningQueue, pc, tstate,
          drainTask, qOf, upd, started, uuid, now, initPc, xpc, xcount, xlocal, xlog,
          idb, mS, mPrev, mLast, mCount, mDiff, cArgs, compressed,
          iArgs, inferred, sqlArgs, tablesAndColumns,
          builders, hookBuilders, instances, schemaStore, metadata>>

builderVars == <<isBuilding, learningQueue, pc, tstate, drainTask, qOf, upd, started>>
extractVars == <<xpc, xcount, xlocal, xlog>>
mergeVars == <<mS, mPrev, mLast, mCount, mDiff>>
fnVars == <<cArgs, compressed, iArgs, inferred, sqlArgs, tablesAndColumns>>
regVars == <<builders, hookBuilders, instances, schemaStore>>

NullCurrent == [isNull |-> TRUE, lastUpdated |-> 0, tref |-> 0, relationships |-> <<>>]
NoXLocal == [newSchema |-> NullSchema, put |-> NullSchema]
NoXLog == [before |-> NullSchema, after |-> NullSchema, mem |-> NullSchema,
           done |-> FALSE, merged |-> FALSE, storeFailed |-> FALSE,
           outcome |-> "pending", overlap |-> {}, viaStore |-> FALSE,
           metadata |-> [lastExtracted |-> 0, extractionCount |-> 0,
                         isExtractionInProgress |-> FALSE]]

\* getCurrentSchema() as a value: the snapshot the Builder holds
Current(cs, hp) ==
  IF cs.isNull THEN NullSchema
  ELSE [isNull |-> FALSE, lastUpdated |-> cs.lastUpdated, tables |-> hp[cs.tref],
        relationships |-> cs.relationships]

getCurrentSchema == Current(currentSchema, heap)

EmptyCompressed == [tables |-> <<>>, relationships |-> <<>>]
NoArgs == [called |-> FALSE]
UnknownColumn == Col(61, "c", "unknown", FALSE, FALSE, TRUE)

NoOp == [kind |-> "none", obs |-> NullSchema, query |-> NoQuery, repeat |-> FALSE]

\* the Builder after construction, the store as it was left
BuilderInit ==
  /\ db \in InitialDbs
  /\ heap = [r \in 0..MaxRefs |-> <<>>]
  /\ nextRef = 1
  /\ currentSchema = NullCurrent
  /\ isBuilding = FALSE
  /\ learningQueue = <<>>
  /\ pc = [c \in Calls |-> "idle"]
  /\ tstate = [c \in Calls |-> "none"]
  /\ drainTask = [c \in Calls |-> 0]
  /\ qOf = [c \in Calls |-> NoQuery]
  /\ upd = [c \in Calls |-> NoUpd]
  /\ started = <<>>
  /\ uuid = UuidBase
  /\ now = TickMs
  /\ initPc = "new"
  /\ xpc = "idle"
  /\ xcount = 0
  /\ xlocal = NoXLocal
  /\ xlog = NoXLog
  /\ idb = [dbInstance |-> FALSE, opening |-> <<>>, transactions |-> <<>>]

\* the database ids the schema store and the hook are asked for; the first
\* one is this Builder's
DatabaseIds == {1, 2}
MaxHooks == 1
MaxInstances == 2
MaxQueued == 1

Hooks == 1..MaxHooks
Instances == 1..MaxInstances

NoTask == [running |-> FALSE, put |-> NullSchema]

\* a SchemaBuilder not constructed yet (databaseId 0) with the field
\* initialisers of the class; initPc and inFlight are the positions of its
\* initialize() and of the learning task its drain loop awaits, dropped
\* says whether a learnFromQuery call found currentSchema null and returned
NoInstance ==
  [databaseId |-> 0, initPc |-> "new", currentSchema |-> NullSchema,
   isBuilding |-> FALSE, learningQueue |-> <<>>, inFlight |-> NoTask, dropped |-> FALSE]

\* createInitialMetadata()
createInitialMetadata ==
  [lastExtracted |-> 0, extractionCount |-> 0, isExtractionInProgress |-> FALSE]

\* the schema store (zustand) and the hooks before any call
RegistryInit ==
  /\ builders = [d \in DatabaseIds |-> 0]
  /\ hookBuilders = [h \in Hooks |-> 0]
  /\ instances = [b \in Instances |-> NoInstance]
  /\ schemaStore = [d \in DatabaseIds |-> db]
  /\ metadata = createInitialMetadata

\* no function of the engine called yet
FnInit ==
  /\ cArgs = NoArgs
  /\ compressed = EmptyCompressed
  /\ iArgs = NoArgs
  /\ inferred = UnknownColumn
  /\ sqlArgs = NoArgs
  /\ tablesAndColumns = <<>>

Init ==
  /\ BuilderInit
  /\ FnInit
  /\ RegistryInit
  /\ mS = NullSchema
  /\ mPrev = NullSchema
  /\ mLast = NoOp
  /\ mCount = 0
  /\ mDiff = NoDiff

(***************************************************************************)
(* Schema store (IndexedDB): db.put stores a structured clone of the value *)
(* it was handed, db.get returns a fresh clone of what is stored.          *)
(***************************************************************************)

\* saveSchema(schema) when db.put succeeds: the stored entry; a falsy
\* lastUpdated is set to Date.now() first
saveSchema(schema, t) ==
  IF schema.lastUpdated = 0 THEN [schema EXCEPT !.lastUpdated = t] ELSE schema

\* getSchema(databaseId) when db.get succeeds: schema || null
getSchema(stored) == stored

\* the requests that write: db.put of a learning task, of
\* extractAndParseSchema and of mergeWithExistingSchema
IsWrite(request) == request \in {"task", "xsave", "msave"}

Without(s, request) == SelectSeq(s, LAMBDA x : x # request)

\* getDB() followed by db.get or db.put: with dbInstance set the transaction
\* is created at once, without it the caller first awaits its own openDB
IdbIssue(s, request) ==
  IF s.dbInstance THEN [s EXCEPT !.transactions = Append(@, request)]
  ELSE [s EXCEPT !.opening = Append(@, request)]

\* the request resolved or rejected
IdbSettle(s, request) ==
  [s EXCEPT !.opening = Without(@, request), !.transactions = Without(@, request)]

\* transactions on the schema store run in the order they were created:
\* a read waits for the writes before it, a write for everything before it
IdbReady(s, request) ==
  \E k \in 1..Len(s.transactions) :
    /\ s.transactions[k] = request
    /\ \A m \in 1..(k - 1) : ~IsWrite(s.transactions[m])
    /\ IsWrite(request) => k = 1

(***************************************************************************)
(* SchemaBuilder: learnFromQuery and the learning queue                    *)
(***************************************************************************)

\* learningTask without its catch block: the error reaches the drain loop
learningTaskRethrows == FALSE

\* the catch block of learningTask: the error is logged, not rethrown
learningTaskCatches == TRUE

\* processLearningQueue without the isBuilding guard
processLearningQueueEntersUnguarded(building, queue) ==
  ~(Len(queue) = 0)

\* processLearningQueue: the early return is NOT taken
processLearningQueueEnters(building, queue) ==
  ~(building \/ Len(queue) = 0)

\* Array.prototype.pop in the place of shift: the task queued last
pop(queue) == [task |-> queue[Len(queue)], rest |-> SubSeq(queue, 1, Len(queue) - 1)]

\* this.learningQueue.shift(): the task queued first and the queue left
shift(queue) == [task |-> Head(queue), rest |-> Tail(queue)]

\* One turn of the while loop of processLearningQueue run by the call d,
\* entered with the queue, task states and current schema given.  With a
\* task queued, the task is shifted and runs up to its db.put (all of it
\* synchronous or microtask hops); with none, the loop ends and the finally
\* block clears isBuilding.
Loop(d, queue1, tstate1, pc1, cs1, qOf1, idb1) ==
  IF queue1 = <<>>
    THEN /\ isBuilding' = FALSE
         /\ learningQueue' = queue1
         /\ tstate' = tstate1
         /\ pc' = [pc1 EXCEPT ![d] = "returned"]
         /\ drainTask' = [drainTask EXCEPT ![d] = 0]
         /\ currentSchema' = cs1
         /\ idb' = idb1
         /\ UNCHANGED <<heap, upd, uuid, started>>
    ELSE LET h == shift(queue1).task
             r == learningTask(heap[cs1.tref], qOf1[h], uuid)
         IN  /\ isBuilding' = TRUE
             /\ learningQueue' = shift(queue1).rest
             /\ tstate' = [tstate1 EXCEPT ![h] = "running"]
             /\ pc' = [pc1 EXCEPT ![d] = "draining"]
             /\ drainTask' = [drainTask EXCEPT ![d] = h]
             /\ currentSchema' = cs1
             /\ heap' = [heap EXCEPT ![cs1.tref] = r.tables]
             /\ uuid' = r.uuid
             /\ upd' = [upd EXCEPT ![h] =
                          [lastUpdated |-> now, tref |-> cs1.tref,
                           relationships |-> cs1.relationships,
                           put |-> [isNull |-> FALSE, lastUpdated |-> now,
                                    tables |-> r.tables,
                                    relationships |-> cs1.relationships],
                           pre |-> Current(cs1, heap), by |-> d,
                           during |-> xpc # "idle"]]
             /\ started' = Append(started, h)
             /\ idb' = IdbIssue(idb1, "task")

\* learnFromQuery(sql, resultColumns, resultData), the c-th call
LearnCall(c, q) ==
  /\ pc[c] = "idle"
  /\ \A b \in Calls : b < c => pc[b] # "idle"
  /\ IF currentSchema.isNull
       THEN /\ pc' = [pc EXCEPT ![c] = "dropped"]
            /\ UNCHANGED <<isBuilding, learningQueue, tstate, drainTask, qOf, upd,
                           started, heap, uuid, currentSchema, idb>>
       ELSE /\ qOf' = [qOf EXCEPT ![c] = q]
            /\ IF processLearningQueueEnters(isBuilding, Append(learningQueue, c))
                 THEN Loop(c, Append(learningQueue, c),
                           [tstate EXCEPT ![c] = "queued"], pc, currentSchema,
                           [qOf EXCEPT ![c] = q], idb)
                 ELSE /\ learningQueue' = Append(learningQueue, c)
                      /\ tstate' = [tstate EXCEPT ![c] = "queued"]
                      /\ pc' = [pc EXCEPT ![c] = "returned"]
                      /\ UNCHANGED <<isBuilding, drainTask, upd, started, heap, uuid,
                                     currentSchema, idb>>
  /\ UNCHANGED <<db, nextRef, now, initPc, extractVars>>
  /\ UNCHANGED <<mergeVars, fnVars, regVars, metadata>>

\* the task awaited by the drain loop of call d: db.put succeeded, the task
\* assigns currentSchema and the loop goes on
TaskSaveOk(d) ==
  /\ pc[d] = "draining"
  /\ IdbReady(idb, "task")
  /\ LET h == drainTask[d]
     IN  /\ db' = saveSchema(upd[h].put, now)
         /\ qOf' = qOf
         /\ Loop(d, learningQueue, [tstate EXCEPT ![h] = "ok"], pc,
                 [isNull |-> FALSE, lastUpdated |-> upd[h].lastUpdated,
                  tref |-> upd[h].tref, relationships |-> upd[h].relationships],
                 qOf, IdbSettle(idb, "task"))
  /\ UNCHANGED <<nextRef, now, initPc, extractVars>>
  /\ UNCHANGED <<mergeVars, fnVars, regVars, metadata>>

\* db.put failed: saveSchema throws StorageError, the task's catch logs it,
\* the loop goes on
TaskSaveFail(d) ==
  /\ pc[d] = "draining"
  /\ LET h == drainTask[d]
     IN  /\ qOf' = qOf
         /\ IF learningTaskCatches
              THEN Loop(d, learningQueue, [tstate EXCEPT ![h] = "failed"], pc,
                        currentSchema, qOf, IdbSettle(idb, "task"))
              ELSE \* a rejected task() leaves the while loop through finally
                   /\ isBuilding' = FALSE
                   /\ tstate' = [tstate EXCEPT ![h] = "failed"]
                   /\ pc' = [pc EXCEPT ![d] = "returned"]
                   /\ drainTask' = [drainTask EXCEPT ![d] = 0]
                   /\ idb' = IdbSettle(idb, "task")
                   /\ UNCHANGED <<learningQueue, currentSchema, heap, upd, uuid,
                                  started>>
  /\ UNCHANGED <<db, nextRef, now, initPc, extractVars>>
  /\ UNCHANGED <<mergeVars, fnVars, regVars, metadata>>

(***************************************************************************)
(* SchemaBuilder.initialize                                                *)
(***************************************************************************)

InitializeCall ==
  /\ initPc = "new"
  /\ initPc' = "loading"
  /\ UNCHANGED <<db, heap, nextRef, currentSchema, builderVars, uuid, now, extractVars>>
  /\ idb' = IdbIssue(idb, "init")
  /\ UNCHANGED <<mergeVars, fnVars, regVars, metadata>>

\* getSchema resolved: currentSchema is the clone read from the store
InitializeDone ==
  /\ initPc = "loading"
  /\ IdbReady(idb, "init")
  /\ initPc' = "done"
  /\ LET s == getSchema(db)
     IN  IF s.isNull
           THEN /\ currentSchema' = NullCurrent
                /\ UNCHANGED <<heap, nextRef>>
           ELSE /\ currentSchema' = [isNull |-> FALSE, lastUpdated |-> s.lastUpdated,
                                     tref |-> nextRef, relationships |-> s.relationships]
                /\ heap' = [heap EXCEPT ![nextRef] = s.tables]
                /\ nextRef' = nextRef + 1
  /\ UNCHANGED <<db, builderVars, uuid, now, extractVars>>
  /\ idb' = IdbSettle(idb, "init")
  /\ UNCHANGED <<mergeVars, fnVars, regVars, metadata>>

\* getSchema threw: initialize logs and returns false
InitializeFail ==
  /\ initPc = "loading"
  /\ initPc' = "failed"
  /\ UNCHANGED <<db, heap, nextRef, currentSchema, builderVars, uuid, now, extractVars>>
  /\ idb' = IdbSettle(idb, "init")
  /\ UNCHANGED <<mergeVars, fnVars, regVars, metadata>>

\* the oldest openDB resolved: initDatabase assigns dbInstance and its caller
\* goes on to create its transaction
OpenDone ==
  /\ idb.opening # <<>>
  /\ idb' = [dbInstance |-> TRUE, opening |-> Tail(idb.opening),
             transactions |-> Append(idb.transactions, Head(idb.opening))]
  /\ UNCHANGED <<db, heap, nextRef, currentSchema, builderVars, uuid, now, initPc,
                 extractVars, mergeVars, fnVars, regVars, metadata>>

\* Date.now() advances
Tick ==
  /\ now < (MaxTicks + 1) * TickMs
  /\ now' = now + TickMs
  /\ UNCHANGED <<db, heap, nextRef, currentSchema, builderVars, uuid, initPc, extractVars>>
  /\ UNCHANGED <<idb, mergeVars, fnVars, regVars, metadata>>

(***************************************************************************)
(* Schema parser and SchemaBuilder.extractSchema.  The page's database id  *)
(* is the Builder's database id.                                           *)
(***************************************************************************)

\* convertRelationship for each extracted relationship; the k-th gets the
\* k-th fresh uuid
RECURSIVE ConvertRelationships(_, _)
ConvertRelationships(extracted, id) ==
  IF extracted = <<>> THEN <<>>
  ELSE << [id |-> id,
           sourceTableId |-> Head(extracted).sourceTableId,
           sourceColumnId |-> Head(extracted).sourceColumnId,
           targetTableId |-> Head(extracted).targetTableId,
           targetColumnId |-> Head(extracted).targetColumnId,
           type |-> "one-to-many"] >> \o ConvertRelationships(Tail(extracted), id + 1)

\* convertColumn(extractedColumn): the seven fields an ExtractedColumn has
convertColumn(extractedColumn) ==
  [id |-> extractedColumn.id,
   name |-> extractedColumn.name,
   type |-> extractedColumn.type,
   description |-> extractedColumn.description,
   isPrimaryKey |-> extractedColumn.isPrimaryKey,
   isForeignKey |-> extractedColumn.isForeignKey,
   isNullable |-> extractedColumn.isNullable,
   hasExamples |-> FALSE,
   examples |-> <<>>]

\* convertTable(extractedTable)
convertTable(extractedTable) ==
  [id |-> extractedTable.id,
   name |-> extractedTable.name,
   description |-> extractedTable.description,
   columns |-> [j \in 1..Len(extractedTable.columns) |->
                  convertColumn(extractedTable.columns[j])]]

\* convertToSchemaCache(extractedSchema, extractedRelationships)
convertToSchemaCache(e, t, id) ==
  [isNull |-> FALSE, lastUpdated |-> t,
   tables |-> [i \in 1..Len(e.tables) |-> convertTable(e.tables[i])],
   relationships |-> ConvertRelationships(e.relationships, id)]

\* shouldRefreshSchema(databaseId) once getSchema resolved
shouldRefreshSchema(schema, t) ==
  IF schema.isNull THEN TRUE ELSE t - schema.lastUpdated > MaxAgeMs

\* completeSchemaExtraction(databaseId, success) at time t
completeSchemaExtraction(m, success, t) ==
  [isExtractionInProgress |-> FALSE,
   lastExtracted |-> IF success THEN t ELSE m.lastExtracted,
   extractionCount |-> IF success THEN m.extractionCount + 1 ELSE m.extractionCount]

\* the continuation of startSchemaExtraction once builder.extractSchema(true)
\* resolved with the snapshot returned: "if (newSchema)" completes with
\* success, a null with failure; a direct extractSchema call has none
Settled(returned) ==
  IF xlog.viaStore
    THEN completeSchemaExtraction(metadata, ~returned.isNull, now)
    ELSE metadata

\* extractSchema returns (any path)
ExtractReturn ==
  /\ xpc' = "idle"
  /\ xlocal' = NoXLocal

\* extractSchema(forceRefresh); canExtract is canExtractSchema() on the page.
\* With forceRefresh the call runs on into extractAndParseSchema.
ExtractCall(forceRefresh, canExtract) ==
  /\ xpc = "idle"
  /\ xcount < MaxExtracts
  /\ xcount' = xcount + 1
  /\ xlog' = [NoXLog EXCEPT !.before = db,
                            !.outcome = IF forceRefresh /\ ~canExtract
                                          THEN "resolved" ELSE "pending",
                            !.overlap = {c \in Calls : tstate[c] = "running"}]
  /\ xlocal' = NoXLocal
  /\ xpc' = IF ~forceRefresh THEN "check"
            ELSE IF canExtract THEN "extract" ELSE "idle"
  /\ UNCHANGED <<db, heap, nextRef, currentSchema, builderVars, uuid, now, initPc>>
  /\ idb' = IF ~forceRefresh THEN IdbIssue(idb, "check") ELSE idb
  /\ UNCHANGED <<mergeVars, fnVars, regVars, metadata>>

\* shouldRefreshSchema resolved (getOk) or its getSchema threw (refresh)
ExtractCheckDone(getOk, canExtract) ==
  /\ xpc = "check"
  /\ getOk => IdbReady(idb, "check")
  /\ LET shouldRefresh == IF getOk THEN shouldRefreshSchema(getSchema(db), now) ELSE TRUE
     IN  /\ xpc' = IF ~shouldRefresh /\ ~currentSchema.isNull THEN "idle"
                    ELSE IF canExtract THEN "extract" ELSE "idle"
         /\ xlog' = [xlog EXCEPT !.outcome = IF xpc' = "idle" THEN "resolved" ELSE @]
  /\ UNCHANGED <<db, heap, nextRef, currentSchema, builderVars, uuid, now, initPc,
                 xcount, xlocal>>
  /\ idb' = IdbSettle(idb, "check")
  /\ UNCHANGED <<mergeVars, fnVars, regVars, metadata>>

\* the adapter returned the page's schema and relationships:
\* extractAndParseSchema converts them and hands the result to saveSchema
ExtractRawDone(e) ==
  /\ xpc = "extract"
  /\ LET newSchema == convertToSchemaCache(e, now, uuid)
     IN  /\ xlocal' = [newSchema |-> newSchema, put |-> newSchema]
         /\ uuid' = uuid + Len(e.relationships)
  /\ xpc' = "save"
  /\ UNCHANGED <<db, heap, nextRef, currentSchema, builderVars, now, initPc, xcount,
                 xlog>>
  /\ idb' = IdbIssue(idb, "xsave")
  /\ UNCHANGED <<mergeVars, fnVars, regVars, metadata>>

\* the adapter threw: extractAndParseSchema returns null
ExtractRawFail ==
  /\ xpc = "extract"
  /\ ExtractReturn
  /\ xlog' = [xlog EXCEPT !.outcome = "resolved"]
  /\ UNCHANGED <<db, heap, nextRef, currentSchema, builderVars, uuid, now, initPc,
                 xcount>>
  /\ UNCHANGED <<idb, mergeVars, fnVars, regVars>>
  /\ metadata' = Settled(currentSchema)

\* the save inside extractAndParseSchema succeeded; extractSchema then
\* either starts mergeWithExistingSchema or adopts newSchema
ExtractSaveOk ==
  /\ xpc = "save"
  /\ IdbReady(idb, "xsave")
  /\ db' = saveSchema(xlocal.put, now)
  /\ IF ~currentSchema.isNull
       THEN /\ xpc' = "mergeRead"
            /\ UNCHANGED <<heap, nextRef, currentSchema, xlocal, xlog>>
       ELSE /\ currentSchema' = [isNull |-> FALSE,
                                 lastUpdated |-> xlocal.newSchema.lastUpdated,
                                 tref |-> nextRef,
                                 relationships |-> xlocal.newSchema.relationships]
            /\ heap' = [heap EXCEPT ![nextRef] = xlocal.newSchema.tables]
            /\ nextRef' = nextRef + 1
            /\ xlog' = [xlog EXCEPT !.after = db', !.mem = xlocal.newSchema,
                                    !.done = TRUE, !.outcome = "resolved"]
            /\ ExtractReturn
  /\ UNCHANGED <<builderVars, uuid, now, initPc, xcount>>
  /\ idb' = IF ~currentSchema.isNull THEN IdbIssue(IdbSettle(idb, "xsave"), "mread")
            ELSE IdbSettle(idb, "xsave")
  /\ UNCHANGED <<mergeVars, fnVars, regVars>>
  /\ metadata' = IF ~currentSchema.isNull THEN metadata ELSE Settled(currentSchema')

\* the save inside extractAndParseSchema threw: it returns null
ExtractSaveFail ==
  /\ xpc = "save"
  /\ ExtractReturn
  /\ xlog' = [xlog EXCEPT !.outcome = "resolved", !.storeFailed = TRUE]
  /\ UNCHANGED <<db, heap, nextRef, currentSchema, builderVars, uuid, now, initPc,
                 xcount>>
  /\ idb' = IdbSettle(idb, "xsave")
  /\ UNCHANGED <<mergeVars, fnVars, regVars>>
  /\ metadata' = Settled(currentSchema)

\* mergeWithExistingSchema read the stored schema, merged and handed the
\* result to saveSchema
MergeReadOk ==
  /\ xpc = "mergeRead"
  /\ IdbReady(idb, "mread")
  /\ LET existingSchema == getSchema(db)
     IN  xlocal' = [xlocal EXCEPT !.put =
                      IF existingSchema.isNull THEN xlocal.newSchema
                      ELSE mergeWithExistingSchema(existingSchema, xlocal.newSchema, now)]
  /\ xpc' = "mergeSave"
  /\ UNCHANGED <<db, heap, nextRef, currentSchema, builderVars, uuid, now, initPc,
                 xcount, xlog>>
  /\ idb' = IdbIssue(IdbSettle(idb, "mread"), "msave")
  /\ UNCHANGED <<mergeVars, fnVars, regVars, metadata>>

\* getSchema threw inside mergeWithExistingSchema: rethrown, extractSchema
\* catches it and returns currentSchema
MergeReadFail ==
  /\ xpc = "mergeRead"
  /\ ExtractReturn
  /\ xlog' = [xlog EXCEPT !.outcome = "resolved", !.storeFailed = TRUE]
  /\ UNCHANGED <<db, heap, nextRef, currentSchema, builderVars, uuid, now, initPc,
                 xcount>>
  /\ idb' = IdbSettle(idb, "mread")
  /\ UNCHANGED <<mergeVars, fnVars, regVars>>
  /\ metadata' = Settled(currentSchema)

\* the save of the merged schema succeeded: it becomes currentSchema
MergeSaveOk ==
  /\ xpc = "mergeSave"
  /\ IdbReady(idb, "msave")
  /\ db' = saveSchema(xlocal.put, now)
  /\ currentSchema' = [isNull |-> FALSE, lastUpdated |-> xlocal.put.lastUpdated,
                       tref |-> nextRef, relationships |-> xlocal.put.relationships]
  /\ heap' = [heap EXCEPT ![nextRef] = xlocal.put.tables]
  /\ nextRef' = nextRef + 1
  /\ xlog' = [xlog EXCEPT !.after = db', !.mem = xlocal.put, !.done = TRUE,
                          !.merged = TRUE, !.outcome = "resolved"]
  /\ ExtractReturn
  /\ UNCHANGED <<builderVars, uuid, now, initPc, xcount>>
  /\ idb' = IdbSettle(idb, "msave")
  /\ UNCHANGED <<mergeVars, fnVars, regVars>>
  /\ metadata' = Settled(currentSchema')

\* the save of the merged schema threw: extractSchema catches it
MergeSaveFail ==
  /\ xpc = "mergeSave"
  /\ ExtractReturn
  /\ xlog' = [xlog EXCEPT !.outcome = "resolved", !.storeFailed = TRUE]
  /\ UNCHANGED <<db, heap, nextRef, currentSchema, builderVars, uuid, now, initPc,
                 xcount>>
  /\ idb' = IdbSettle(idb, "msave")
  /\ UNCHANGED <<mergeVars, fnVars, regVars>>
  /\ metadata' = Settled(currentSchema)

Next ==
  \/ \E c \in Calls, q \in Queries : LearnCall(c, q)
  \/ \E d \in Calls : TaskSaveOk(d)
  \/ \E d \in Calls : TaskSaveFail(d)
  \/ InitializeCall
  \/ InitializeDone
  \/ InitializeFail
  \/ OpenDone
  \/ Tick
  \/ \E f \in BOOLEAN, ce \in BOOLEAN : ExtractCall(f, ce)
  \/ \E g \in BOOLEAN, ce \in BOOLEAN : ExtractCheckDone(g, ce)
  \/ \E e \in Extractions : ExtractRawDone(e)
  \/ ExtractRawFail
  \/ ExtractSaveOk
  \/ ExtractSaveFail
  \/ MergeReadOk
  \/ MergeReadFail
  \/ MergeSaveOk
  \/ MergeSaveFail

Spec == Init /\ [][Next]_vars

\* the Builder with its learning queue alone: no refresh, the clock stands
QueueNext ==
  \/ \E c \in Calls, q \in Queries : LearnCall(c, q)
  \/ \E d \in Calls : TaskSaveOk(d)
  \/ \E d \in Calls : TaskSaveFail(d)
  \/ InitializeCall
  \/ InitializeDone
  \/ InitializeFail
  \/ OpenDone

QueueSpec == Init /\ [][QueueNext]_vars

\* the store's I/O always completes, successfully or not, so an awaited
\* db.put eventually resolves or rejects
FairQueueSpec ==
  QueueSpec /\ WF_vars(\E d \in Calls : TaskSaveOk(d) \/ TaskSaveFail(d))

(***************************************************************************)
(* The merge functions and the learning task applied in turn to one        *)
(* snapshot: each application takes the snapshot the one before left.      *)
(***************************************************************************)

\* the observations of the page as convertToSchemaCache hands them on, and
\* one made elsewhere
Observations ==
  {convertToSchemaCache(e, TickMs, 31) : e \in Extractions}
    \cup {UsersObservation, ExamplesObservation}

MergeInit ==
  /\ BuilderInit
  /\ FnInit
  /\ RegistryInit
  /\ RegistryInit
  /\ mS \in Snapshots
  /\ mPrev = mS
  /\ mLast = NoOp
  /\ mCount = 0
  /\ mDiff = NoDiff

\* mergeWithExistingSchema(databaseId, newSchema) with the read and the save
\* succeeding, the store holding mS
MergeOp(newSchema) ==
  /\ mCount < MaxOps
  /\ mS' = saveSchema(IF getSchema(mS).isNull THEN newSchema
                      ELSE mergeWithExistingSchema(getSchema(mS), newSchema, now),
                      now)
  /\ mPrev' = mS
  /\ mLast' = [kind |-> "merge", obs |-> newSchema, query |-> NoQuery,
               repeat |-> mLast.kind = "merge" /\ mLast.obs = newSchema]
  /\ mCount' = mCount + 1
  /\ mDiff' = diffSchema(mS, mS')
  /\ UNCHANGED <<db, heap, nextRef, currentSchema, builderVars, uuid, now, initPc,
                 extractVars, idb, fnVars, regVars, metadata>>

\* a learning task of a Builder whose currentSchema is mS, its save
\* succeeding
LearnOp(q) ==
  /\ mCount < MaxOps
  /\ ~mS.isNull
  /\ \E r \in {learningTask(mS.tables, q, uuid)} :
       /\ mS' = saveSchema([mS EXCEPT !.tables = r.tables, !.lastUpdated = now], now)
       /\ uuid' = r.uuid
  /\ mPrev' = mS
  /\ mLast' = [kind |-> "learn", obs |-> NullSchema, query |-> q, repeat |-> FALSE]
  /\ mCount' = mCount + 1
  /\ mDiff' = NoDiff
  /\ UNCHANGED <<db, heap, nextRef, currentSchema, builderVars, now, initPc,
                 extractVars, idb, fnVars, regVars, metadata>>

MergeNext ==
  \/ \E newSchema \in Observations : MergeOp(newSchema)
  \/ \E q \in LearnQueries : LearnOp(q)

MergeSpec == MergeInit /\ [][MergeNext]_vars

(***************************************************************************)
(* Properties of the learning queue                                        *)
(***************************************************************************)

Running == {c \in Calls : tstate[c] = "running"}
Quiescent == learningQueue = <<>> /\ Running = {}

\* C1: on one SchemaBuilder at most one learning task is executing at any
\* time: a task (its db.put and its assignment of currentSchema included)
\* finishes before the next one starts, however many learnFromQuery calls
\* are issued while earlier tasks await I/O.
OneLearningTaskAtATime == Cardinality(Running) <= 1

\* a call was issued while an earlier task was awaiting its db.put: its task
\* waits in the queue
OneLearningTaskAtATimeWitness ==
  \E c \in Calls, b \in Calls :
    /\ tstate[c] = "running"
    /\ tstate[b] = "queued"
    /\ pc[b] = "returned"

\* the snapshot s has every table and every qualified column the query q
\* references in its sql and in its result headers (names ignoring case)
HasTableColumn(s, tableName, columnName) ==
  \E i \in 1..Len(s.tables) :
    /\ toLowerCase(s.tables[i].name) = toLowerCase(tableName)
    /\ columnName # "" =>
         \E j \in 1..Len(s.tables[i].columns) :
           toLowerCase(s.tables[i].columns[j].name) = toLowerCase(columnName)

HasReferences(s, q) ==
  /\ ~s.isNull
  /\ \A i \in 1..Len(q.tablesAndColumns) :
       LET e == q.tablesAndColumns[i]
       IN  /\ HasTableColumn(s, e.table, "")
           /\ \A j \in 1..Len(e.columns) : HasTableColumn(s, e.table, e.columns[j])
  /\ Len(q.resultData) > 0 =>
       \A i \in 1..Len(q.resultColumns) :
         Len(q.resultColumns[i]) = 2 =>
           HasTableColumn(s, q.resultColumns[i][1], q.resultColumns[i][2])

\* C2: no lost update between learning tasks: when persistence succeeds and
\* no extractSchema runs, once the queue has drained both the in-memory and
\* the persisted snapshot have every table and every qualified column
\* referenced by every learnFromQuery call that was accepted.
NoLostUpdate ==
  (/\ Quiescent
   /\ xcount = 0
   /\ \A c \in Calls : tstate[c] # "failed") =>
     \A c \in Calls :
       tstate[c] = "ok" =>
         /\ HasReferences(getCurrentSchema, qOf[c])
         /\ HasReferences(db, qOf[c])

\* two calls with different arguments, the second issued while the first
\* task was in flight (its task was run by the first call's drain loop),
\* both saved
NoLostUpdateWitness ==
  /\ Quiescent
  /\ xcount = 0
  /\ \E c \in Calls, b \in Calls :
       /\ c # b
       /\ tstate[c] = "ok" /\ tstate[b] = "ok"
       /\ qOf[c] # qOf[b]
       /\ upd[b].by = c
       /\ Len(qOf[c].tablesAndColumns[1].columns) > 0

\* C3: a failure inside a queued learning task never stalls the queue: the
\* error does not reach the drain loop, every queued task is eventually
\* executed, and whenever the queue is empty and no task is in flight
\* isBuilding is false again.
FailureNeverStallsQueue ==
  /\ \A c \in Calls : (tstate[c] = "queued") ~> (tstate[c] \in {"ok", "failed"})
  /\ [](Quiescent => ~isBuilding)
  /\ [](\A c \in Calls : pc[c] = "draining" => isBuilding)

\* a task failed and the task queued behind it was run by the same drain
\* loop afterwards
FailureNeverStallsQueueWitness ==
  \E c \in Calls, b \in Calls :
    /\ tstate[c] = "failed"
    /\ tstate[b] \in {"ok", "failed"}
    /\ started = <<c, b>>
    /\ upd[b].by = upd[c].by
    /\ Quiescent /\ ~isBuilding

\* C4: a learning task that fails does not mutate the Builder's in-memory
\* snapshot: after the failed task getCurrentSchema() has exactly the
\* tables, columns, column fields and lastUpdated it had before the task
\* started.  (Stated for the task started last, while currentSchema still
\* refers to the tables array the task worked on, so that nothing but the
\* task can have changed it.)
FailedTaskLeavesSnapshot ==
  \A c \in Calls :
    (/\ tstate[c] = "failed"
     /\ started # <<>> /\ started[Len(started)] = c
     /\ ~currentSchema.isNull
     /\ currentSchema.tref = upd[c].tref) =>
       getCurrentSchema = upd[c].pre

(***************************************************************************)
(* Properties of extractSchema                                             *)
(***************************************************************************)

\* every table and column of the snapshot old is still in the snapshot new,
\* with its learned type, flags and examples
KeepsAll(new, old) ==
  \A i \in 1..Len(old.tables) :
    \E k \in 1..Len(new.tables) :
      /\ new.tables[k].id = old.tables[i].id
      /\ \A j \in 1..Len(old.tables[i].columns) :
           LET c == old.tables[i].columns[j]
           IN  \E l \in 1..Len(new.tables[k].columns) :
                 LET n == new.tables[k].columns[l]
                 IN  /\ n.id = c.id
                     /\ c.type # "unknown" => n.type = c.type
                     /\ c.isPrimaryKey => n.isPrimaryKey
                     /\ c.isForeignKey => n.isForeignKey
                     /\ Range(c.examples) \subseteq Range(n.examples)

\* C9: extractSchema never overwrites an existing snapshot, it merges into
\* it: after a refresh for a database id that had a persisted snapshot,
\* every table and column of that snapshot is still in the persisted and in
\* the in-memory snapshot.  (Stated for refreshes that went through
\* mergeWithExistingSchema.)
RefreshMergesIntoPersisted ==
  (xlog.done /\ xlog.merged /\ ~xlog.before.isNull) =>
     /\ KeepsAll(xlog.after, xlog.before)
     /\ KeepsAll(xlog.mem, xlog.before)

(***************************************************************************)
(* Properties of merges and learning tasks applied in turn                 *)
(***************************************************************************)

\* the column at place <<i, j>> of the snapshot before the last application
\* is at the same place after it (tables and columns are only appended)
Kept(i, j) ==
  /\ i <= Len(mS.tables)
  /\ j <= Len(mS.tables[i].columns)
  /\ mS.tables[i].id = mPrev.tables[i].id
  /\ mS.tables[i].columns[j].id = mPrev.tables[i].columns[j].id

\* the last application was a merge whose observation has, for the column at
\* place <<i, j>>, a column (same table id, same column id) satisfying P
Incoming(i, j, P(_)) ==
  /\ mLast.kind = "merge"
  /\ \E a \in 1..Len(mLast.obs.tables) :
       /\ mLast.obs.tables[a].id = mPrev.tables[i].id
       /\ \E b \in 1..Len(mLast.obs.tables[a].columns) :
            /\ mLast.obs.tables[a].columns[b].id = mPrev.tables[i].columns[j].id
            /\ P(mLast.obs.tables[a].columns[b])

\* the last application was a learning task whose result rows give, for the
\* column at place <<i, j>>, a sample the Type Inferencer classifies as type
Sampled(i, j, type) ==
  /\ mLast.kind = "learn"
  /\ \E k \in 1..Len(mLast.query.resultColumns) :
       LET header == mLast.query.resultColumns[k]
       IN  /\ Len(header) = 2
           /\ toLowerCase(header[1]) = toLowerCase(mPrev.tables[i].name)
           /\ toLowerCase(header[2]) = toLowerCase(mPrev.tables[i].columns[j].name)
           /\ Len(mLast.query.resultData) > 0
           /\ inferColumnType(SampleValues(mLast.query.resultData, k)) = type

\* C5: type monotonicity: over any sequence of merges and learning tasks,
\* a column whose type is concrete keeps that type: it never goes back to
\* unknown and never becomes another concrete type.
TypeMonotone ==
  \A i \in 1..Len(mPrev.tables) : \A j \in 1..Len(mPrev.tables[i].columns) :
    /\ Kept(i, j)
    /\ mPrev.tables[i].columns[j].type # "unknown" =>
         mS.tables[i].columns[j].type = mPrev.tables[i].columns[j].type

\* a learning task brought a sample of nulls only, or of another concrete
\* type, for a column whose type was concrete
TypeMonotoneWitness ==
  \E i \in 1..Len(mPrev.tables) : \E j \in 1..Len(mPrev.tables[i].columns) :
    /\ mPrev.tables[i].columns[j].type = "integer"
    /\ (Sampled(i, j, "unknown") \/ Sampled(i, j, "string"))

\* C6: key flags are monotonic OR: over any sequence of merges and learning
\* tasks, isPrimaryKey and isForeignKey of a column never go from true to
\* false.
KeyFlagsMonotone ==
  \A i \in 1..Len(mPrev.tables) : \A j \in 1..Len(mPrev.tables[i].columns) :
    /\ Kept(i, j)
    /\ mPrev.tables[i].columns[j].isPrimaryKey => mS.tables[i].columns[j].isPrimaryKey
    /\ mPrev.tables[i].columns[j].isForeignKey => mS.tables[i].columns[j].isForeignKey

\* a merge brought isPrimaryKey false for a column that was a primary key
KeyFlagsMonotoneWitness ==
  \E i \in 1..Len(mPrev.tables) : \E j \in 1..Len(mPrev.tables[i].columns) :
    /\ mPrev.tables[i].columns[j].isPrimaryKey
    /\ Incoming(i, j, LAMBDA c : ~c.isPrimaryKey)

\* C7: isNullable is monotonic OR: over any sequence of merges and learning
\* tasks (result rows without a null for the column included), isNullable of
\* a column never goes from true to false.
NullableMonotone ==
  \A i \in 1..Len(mPrev.tables) : \A j \in 1..Len(mPrev.tables[i].columns) :
    (Kept(i, j) /\ mPrev.tables[i].columns[j].isNullable) =>
       mS.tables[i].columns[j].isNullable

\* the tables, columns, column fields and relationships of a snapshot
Content(s) == [tables |-> s.tables, relationships |-> s.relationships]

MergeFallsBackToName ==
  mLast.kind = "merge" =>
    \A k \in (Len(mPrev.tables) + 1)..Len(mS.tables) :
      \A i \in 1..Len(mPrev.tables) :
        toLowerCase(mS.tables[k].name) # toLowerCase(mPrev.tables[i].name)

(***************************************************************************)
(* Properties of the example lists                                         *)
(***************************************************************************)

\* no value twice in the sequence
NoDuplicates(s) == \A a \in 1..Len(s) : \A b \in 1..Len(s) : s[a] = s[b] => a = b

\* C11: after any merge, every column's example list is de-duplicated,
\* keeps first-seen order (the examples the column had come first, in their
\* order) and has at most 10 entries.
MergeKeepsExamplesBounded ==
  mLast.kind = "merge" =>
    /\ \A i \in 1..Len(mS.tables) : \A j \in 1..Len(mS.tables[i].columns) :
         /\ NoDuplicates(mS.tables[i].columns[j].examples)
         /\ Len(mS.tables[i].columns[j].examples) <= MaxExamples
    /\ \A i \in 1..Len(mPrev.tables) : \A j \in 1..Len(mPrev.tables[i].columns) :
         Kept(i, j) =>
           LET before == mPrev.tables[i].columns[j].examples
               after  == mS.tables[i].columns[j].examples
           IN  /\ Len(before) <= Len(after)
               /\ SubSeq(after, 1, Len(before)) = before


\* C12: the lastUpdated of the persisted snapshot never decreases, whatever
\* the interleaving of extractSchema calls, merges and learning tasks, the
\* clock never going back
LastUpdatedMonotone ==
  [][(~db.isNull /\ ~db'.isNull) => db'.lastUpdated >= db.lastUpdated]_vars


(***************************************************************************)
(* Schema compressor                                                       *)
(***************************************************************************)

DefaultMaxTables == 20
DefaultMaxColumnsPerTable == 20
DefaultMaxTokens == 4000
ManyRelationships == 10
MinRelationships == 5

\* referencedTables.includes(table.name.toLowerCase())
IsReferenced(table, referencedTables) ==
  toLowerCase(table.name) \in Range(referencedTables)

\* the working copy of the tables left in the snapshot's order
PrioritizeTablesUnsorted(tables, referencedTables) == tables

\* tables.sort with the comparator of compressSchema (the sort is stable):
\* the referenced tables, then the others
PrioritizeTables(tables, referencedTables) ==
  SelectSeq(tables, LAMBDA t : IsReferenced(t, referencedTables))
    \o SelectSeq(tables, LAMBDA t : ~IsReferenced(t, referencedTables))

\* compressColumns(columns, options): primary keys, then foreign keys, then
\* the rest (stable sort), cut to maxColumnsPerTable, four fields kept
compressColumns(columns, options) ==
  LET sorted ==
        SelectSeq(columns, LAMBDA c : c.isPrimaryKey /\ c.isForeignKey)
          \o SelectSeq(columns, LAMBDA c : c.isPrimaryKey /\ ~c.isForeignKey)
          \o SelectSeq(columns, LAMBDA c : ~c.isPrimaryKey /\ c.isForeignKey)
          \o SelectSeq(columns, LAMBDA c : ~c.isPrimaryKey /\ ~c.isForeignKey)
      processedColumns ==
        IF options.maxColumnsPerTable # 0 /\ options.maxColumnsPerTable < Len(sorted)
          THEN Slice(sorted, options.maxColumnsPerTable)
          ELSE sorted
  IN  [j \in 1..Len(processedColumns) |->
         [name |-> processedColumns[j].name,
          type |-> processedColumns[j].type,
          isPrimaryKey |-> processedColumns[j].isPrimaryKey,
          isForeignKey |-> processedColumns[j].isForeignKey]]

\* the relationships of compressSchema: both tables kept, both columns found
CompressRelationships(schema, tables) ==
  LET includedTableNames == {toLowerCase(tables[i].name) : i \in 1..Len(tables)}
      SourceTable(rel) == FindById(schema.tables, rel.sourceTableId)
      TargetTable(rel) == FindById(schema.tables, rel.targetTableId)
      SourceColumn(rel) ==
        FindById(schema.tables[SourceTable(rel)].columns, rel.sourceColumnId)
      TargetColumn(rel) ==
        FindById(schema.tables[TargetTable(rel)].columns, rel.targetColumnId)
      relevant ==
        SelectSeq(schema.relationships, LAMBDA rel :
          /\ SourceTable(rel) # 0
          /\ TargetTable(rel) # 0
          /\ toLowerCase(schema.tables[SourceTable(rel)].name) \in includedTableNames
          /\ toLowerCase(schema.tables[TargetTable(rel)].name) \in includedTableNames
          /\ SourceColumn(rel) # 0
          /\ TargetColumn(rel) # 0)
  IN  [k \in 1..Len(relevant) |->
         [source |-> schema.tables[SourceTable(relevant[k])].name,
          sourceColumn |->
            schema.tables[SourceTable(relevant[k])].columns[SourceColumn(relevant[k])].name,
          target |-> schema.tables[TargetTable(relevant[k])].name,
          targetColumn |->
            schema.tables[TargetTable(relevant[k])].columns[TargetColumn(relevant[k])].name]]

RECURSIVE ConcatAll(_)
ConcatAll(seqs) ==
  IF seqs = <<>> THEN <<>> ELSE Head(seqs) \o ConcatAll(Tail(seqs))

\* parts.join('\n')
RECURSIVE Join(_)
Join(parts) ==
  IF parts = <<>> THEN ""
  ELSE IF Len(parts) = 1 THEN parts[1]
  ELSE parts[1] \o "\n" \o Join(Tail(parts))

\* schemaToString(schema): the rendered text
schemaToString(schema) ==
  LET ColumnLine(column) ==
        "  " \o column.name \o " (" \o column.type \o ")"
          \o (IF column.isPrimaryKey THEN " PK"
              ELSE IF column.isForeignKey THEN " FK" ELSE "")
      TableParts(table) ==
        <<"Table: " \o table.name>>
          \o [j \in 1..Len(table.columns) |-> ColumnLine(table.columns[j])]
      RelLine(rel) ==
        "  " \o rel.source \o "." \o rel.sourceColumn \o " -> "
          \o rel.target \o "." \o rel.targetColumn
  IN  Join(ConcatAll([i \in 1..Len(schema.tables) |-> TableParts(schema.tables[i])])
             \o (IF Len(schema.relationships) > 0
                   THEN <<"\nRelationships:">>
                          \o [k \in 1..Len(schema.relationships) |->
                                RelLine(schema.relationships[k])]
                   ELSE <<>>))

\* estimateTokens(text): Math.ceil(text.length / 4)
estimateTokens(text) == (Len(text) + 3) \div 4

\* trimmed.tables.pop() and the relationships filter that follows it
PopTable(trimmed) ==
  LET tables == SubSeq(trimmed.tables, 1, Len(trimmed.tables) - 1)
      tableNames == {toLowerCase(tables[i].name) : i \in 1..Len(tables)}
  IN  [tables |-> tables,
       relationships |->
         SelectSeq(trimmed.relationships, LAMBDA rel :
           toLowerCase(rel.source) \in tableNames
             /\ toLowerCase(rel.target) \in tableNames)]

\* while (estimateTokens(schemaToString(trimmed)) > maxTokens
\*        && trimmed.tables.length > 1) { pop }
RECURSIVE PopTables(_, _)
PopTables(trimmed, maxTokens) ==
  IF Len(trimmed.tables) > 1 /\ estimateTokens(schemaToString(trimmed)) > maxTokens
    THEN The({ PopTables(popped, maxTokens) : popped \in {PopTable(trimmed)} })
    ELSE trimmed

\* the column reduction without its floor: each table keeps
\* floor(0.7 * columns) leading columns
ReduceColumnsNoFloor(trimmed) ==
  [trimmed EXCEPT !.tables =
     [i \in 1..Len(trimmed.tables) |->
        [trimmed.tables[i] EXCEPT
           !.columns = SubSeq(@, 1, (Len(trimmed.tables[i].columns) * 7) \div 10)]]]

\* the column reduction of trimToTokenLimit: each table keeps
\* max(number of key columns, floor(0.7 * columns)) leading columns
ReduceColumns(trimmed) ==
  [trimmed EXCEPT !.tables =
     [i \in 1..Len(trimmed.tables) |->
        LET table == trimmed.tables[i]
            keys == Len(SelectSeq(table.columns,
                                  LAMBDA c : c.isPrimaryKey \/ c.isForeignKey))
            reduced == (Len(table.columns) * 7) \div 10
            newColumnCount == IF keys > reduced THEN keys ELSE reduced
        IN  IF newColumnCount < Len(table.columns)
              THEN [table EXCEPT !.columns = SubSeq(@, 1, newColumnCount)]
              ELSE table]]

\* trimToTokenLimit(schema, maxTokens)
trimToTokenLimit(schema, maxTokens) ==
  The({ IF estimatedTokens <= maxTokens THEN schema
        ELSE The({ The({ PopTables(IF estimateTokens(schemaToString(fewerTables))
                                        > maxTokens
                                     THEN ReduceColumns(fewerTables)
                                     ELSE fewerTables,
                                   maxTokens) :
                         fewerTables \in {PopTables(fewerRels, maxTokens)} }) :
                   fewerRels \in
                     { IF Len(schema.relationships) > ManyRelationships
                         THEN LET scaled == (Len(schema.relationships) * maxTokens)
                                              \div estimatedTokens
                                  newRelCount == IF scaled < MinRelationships
                                                   THEN MinRelationships ELSE scaled
                              IN  [schema EXCEPT !.relationships = Slice(@, newRelCount)]
                         ELSE schema } }) :
        estimatedTokens \in {estimateTokens(schemaToString(schema))} })

\* compressSchema(schema, referencedTables, options), options merged over
\* DEFAULT_COMPRESSION_OPTIONS by the caller of this operator
compressSchema(schema, referencedTables, options) ==
  IF schema.isNull \/ Len(schema.tables) = 0 THEN EmptyCompressed
  ELSE
    The({ The({ The({ IF options.maxTokens # 0
                        THEN trimToTokenLimit(result, options.maxTokens)
                        ELSE result :
                      result \in
                        { [tables |->
                             [i \in 1..Len(tables) |->
                                [name |-> tables[i].name,
                                 columns |->
                                   compressColumns(tables[i].columns, options)]],
                           relationships |->
                             IF options.includeRelationships
                               THEN CompressRelationships(schema, tables)
                               ELSE <<>>] } }) :
                tables \in
                  { IF options.maxTables # 0 /\ options.maxTables < Len(prioritized)
                      THEN Slice(prioritized, options.maxTables)
                      ELSE prioritized } }) :
          prioritized \in
            { IF options.prioritizeReferencedTables /\ Len(referencedTables) > 0
                THEN PrioritizeTables(schema.tables, referencedTables)
                ELSE schema.tables } })


\* snapshots handed to compressSchema: users, orders (or Orders) and items in
\* every order and every selection, with the relationship orders.user_id ->
\* users.id, and one snapshot with eleven relationships
CompressTable(id, ordersName) ==
  CASE id = 1 ->
         [id |-> 1, name |-> "users", description |-> "",
          columns |-> << Col(11, "id", "integer", TRUE, FALSE, FALSE),
                         Col(12, "name", "string", FALSE, FALSE, TRUE),
                         Col(13, "email", "string", FALSE, FALSE, TRUE) >>]
    [] id = 2 ->
         [id |-> 2, name |-> ordersName, description |-> "",
          columns |-> << Col(23, "status", "string", FALSE, FALSE, TRUE),
                         Col(22, "user_id", "integer", FALSE, TRUE, FALSE),
                         Col(21, "id", "integer", TRUE, FALSE, FALSE) >>]
    [] OTHER ->
         [id |-> 3, name |-> "items", description |-> "",
          columns |-> << Col(31, "sku", "string", FALSE, FALSE, TRUE),
                         Col(32, "qty", "integer", FALSE, FALSE, TRUE) >>]

OrdersToUsers(id) ==
  [id |-> id, sourceTableId |-> 2, sourceColumnId |-> 22,
   targetTableId |-> 1, targetColumnId |-> 11, type |-> "one-to-many"]

MaxCompressTables == 3

\* the snapshot a Builder holds after it learned the table orders from a
\* query (id made by uuidv4) and then merged the page's table Orders (id 2),
\* which the merge appended: users, orders, Orders
LearnedAndExtracted ==
  [isNull |-> FALSE, lastUpdated |-> TickMs,
   tables |-> << CompressTable(1, "orders"),
                 [CompressTable(2, "orders") EXCEPT !.id = 51],
                 CompressTable(2, "Orders") >>,
   relationships |-> << OrdersToUsers(41) >>]

\* a snapshot whose first table has key columns only: order_items(order_id
\* FK, item_id FK), then users
LinkSnapshot ==
  [isNull |-> FALSE, lastUpdated |-> TickMs,
   tables |-> << [id |-> 4, name |-> "order_items", description |-> "",
                  columns |-> << Col(41, "order_id", "integer", FALSE, TRUE, FALSE),
                                 Col(42, "item_id", "integer", FALSE, TRUE, FALSE) >>],
                 CompressTable(1, "orders") >>,
   relationships |-> <<>>]

CompressSnapshots ==
  { [isNull |-> FALSE, lastUpdated |-> TickMs,
     tables |-> [i \in 1..Len(ids) |-> CompressTable(ids[i], ordersName)],
     relationships |-> << OrdersToUsers(41) >>] :
      ids \in { s \in UNION {[1..n -> 1..3] : n \in 0..MaxCompressTables} :
                  \A i, j \in 1..Len(s) : i # j => s[i] # s[j] },
      ordersName \in {"orders", "Orders"} }
    \cup
  { NullSchema,
    [isNull |-> FALSE, lastUpdated |-> TickMs,
     tables |-> << CompressTable(1, "orders"), CompressTable(2, "orders") >>,
     relationships |-> [k \in 1..(ManyRelationships + 1) |-> OrdersToUsers(40 + k)]],
    LearnedAndExtracted,
    LinkSnapshot }

ReferencedTables == { <<>>, <<"orders">>, <<"Orders">>, <<"items", "users">> }

TokenBudgets == {0, 1, 8, 16, 24, DefaultMaxTokens}

CompressionOptions ==
  [maxTables : {0, 1, 2, DefaultMaxTables},
   maxColumnsPerTable : {1, DefaultMaxColumnsPerTable},
   prioritizeReferencedTables : BOOLEAN,
   includeRelationships : BOOLEAN,
   maxTokens : TokenBudgets]

\* compressSchema(schema, referencedTables, options); the function keeps
\* nothing between calls, so one call is made per behaviour
CompressCall(schema, referencedTables, options) ==
  /\ ~cArgs.called
  /\ cArgs' = [called |-> TRUE, schema |-> schema,
               referencedTables |-> referencedTables, options |-> options]
  /\ compressed' = compressSchema(schema, referencedTables, options)
  /\ UNCHANGED <<db, heap, nextRef, currentSchema, builderVars, uuid, now, initPc,
                 extractVars, idb, mergeVars, iArgs, inferred, sqlArgs,
                 tablesAndColumns, regVars, metadata>>

CompressNext ==
  /\ ~cArgs.called
  /\ \E schema \in CompressSnapshots, referencedTables \in ReferencedTables,
        options \in CompressionOptions :
       CompressCall(schema, referencedTables, options)

CompressSpec == Init /\ [][CompressNext]_vars

\* the estimated token cost of what the last call returned
Cost == estimateTokens(schemaToString(compressed))

OnlyKeyColumns(table) ==
  \A j \in 1..Len(table.columns) :
    table.columns[j].isPrimaryKey \/ table.columns[j].isForeignKey

\* C13: whatever the snapshot and the token budget B, the result of
\* compressSchema costs at most B estimated tokens, or it is the minimal
\* projection: exactly one table holding only its key columns
CompressionBound ==
  cArgs.called =>
    \/ Cost <= cArgs.options.maxTokens
    \/ /\ Len(compressed.tables) = 1
       /\ OnlyKeyColumns(compressed.tables[1])


TableNames(tables) == [i \in 1..Len(tables) |-> tables[i].name]

\* C14: with referencedTables = ["orders"] and the default prioritisation,
\* whatever maxTables and the token budget drop, a snapshot that has the table
\* orders keeps it in every result that has a table at all
ReferencedTableSurvives ==
  ( /\ cArgs.called
    /\ cArgs.referencedTables = <<"orders">>
    /\ cArgs.options.prioritizeReferencedTables
    /\ "orders" \in Range(TableNames(cArgs.schema.tables))
    /\ Len(compressed.tables) >= 1 )
  => "orders" \in Range(TableNames(compressed.tables))

\* orders was not the snapshot's first table, tables were dropped, orders stayed
ReferencedTableSurvivesWitness ==
  /\ cArgs.called
  /\ cArgs.referencedTables = <<"orders">>
  /\ cArgs.options.prioritizeReferencedTables
  /\ Len(cArgs.schema.tables) = 3
  /\ cArgs.schema.tables[3].name = "orders"
  /\ cArgs.options.maxTables = 2
  /\ cArgs.options.maxTokens = 16
  /\ TableNames(compressed.tables) = <<"orders">>


\* the entry and the table name compared ignoring case on both sides
MatchesIgnoringCase(name, referencedTables) ==
  \E k \in 1..Len(referencedTables) :
    toLowerCase(referencedTables[k]) = toLowerCase(name)

\* C15: with entries in referencedTables, compressSchema puts every table
\* whose name equals an entry ignoring case (in the name or in the entry)
\* before every other table, each of the two groups in the snapshot's order;
\* the result is a prefix of that order
ReferencedFirstIgnoringCase ==
  ( /\ cArgs.called
    /\ ~cArgs.schema.isNull
    /\ cArgs.options.prioritizeReferencedTables
    /\ Len(cArgs.referencedTables) > 0 )
  => LET names == TableNames(cArgs.schema.tables)
         expected ==
           SelectSeq(names, LAMBDA n : MatchesIgnoringCase(n, cArgs.referencedTables))
             \o SelectSeq(names,
                          LAMBDA n : ~MatchesIgnoringCase(n, cArgs.referencedTables))
     IN  TableNames(compressed.tables) = SubSeq(expected, 1, Len(compressed.tables))


\* C16: a persistence failure during the save or the merge of a refresh makes
\* extractSchema reject; the call does not resolve with a snapshot
ExtractPropagatesStoreFailure ==
  xlog.storeFailed => xlog.outcome = "rejected"


\* C17: once initialize() has completed for a database with no persisted
\* snapshot, a learnFromQuery call is not dropped: it queues and runs a task
LearnsFromEmptySnapshot ==
  [][\A c \in Calls :
       (initPc = "done" /\ db.isNull /\ pc[c] = "idle" /\ pc'[c] # "idle")
         => pc'[c] # "dropped"]_vars


(***************************************************************************)
(* Type inference applied to one sampled column                            *)
(***************************************************************************)

MaxSample == 4

Cells == {"null", "n1", "n2", "n4", "n2.5", "sdate", "sdate2", "sJan", "sabc", "btrue"}

Samples == UNION {[1..n -> Cells] : n \in 0..MaxSample}

\* inferTypesFromData(table, ['c'], data) for a table whose column c has
\* type 'unknown', data holding one row per sampled value; one call per
\* behaviour
InferCall(values) ==
  /\ ~iArgs.called
  /\ iArgs' = [called |-> TRUE, values |-> values]
  /\ LET table == [id |-> 6, name |-> "t", description |-> "",
                   columns |-> <<UnknownColumn>>]
         data == [i \in 1..Len(values) |-> <<values[i]>>]
     IN  inferred' = inferTypesFromData(table, <<"c">>, data, 1).columns[1]
  /\ UNCHANGED <<db, heap, nextRef, currentSchema, builderVars, uuid, now, initPc,
                 extractVars, idb, mergeVars, cArgs, compressed, sqlArgs,
                 tablesAndColumns, regVars, metadata>>

InferNext ==
  /\ ~iArgs.called
  /\ \E values \in Samples : InferCall(values)

InferSpec == Init /\ [][InferNext]_vars

\* what a value is when parsed as a whole
WholeInteger(v) == v \in {"n1", "n2", "n4"}
WholeDate(v) == v \in {"sdate", "sdate2", "sJan"}

\* C18: on whole-value parses a sample whose non-null values are all date
\* strings, such as "2024-01-01", "2024-02-15", infers date, and one whose
\* non-null values are all integers, such as 1, 2, null, 4, infers integer;
\* nullable says whether a null was sampled
InferencePrecedence ==
  (iArgs.called /\ NonNull(iArgs.values) # <<>>) =>
    LET nonNull == NonNull(iArgs.values)
        All(P(_)) == \A i \in 1..Len(nonNull) : P(nonNull[i])
    IN  /\ All(WholeDate) => inferred.type = "date"
        /\ All(WholeInteger) => inferred.type = "integer"
        /\ (All(WholeDate) \/ All(WholeInteger)) =>
             inferred.isNullable = ("null" \in Range(iArgs.values))

(***************************************************************************)
(* Reference extractor: extractTablesAndColumnsFromSQL, its regular        *)
(* expressions applied to the characters of the SQL text                   *)
(***************************************************************************)

Char(s, i) == SubSeq(s, i, i)

UpperCaseLetters == "ABCDEFGHIJKLMNOPQRSTUVWXYZ"
LowerCaseLetters == "abcdefghijklmnopqrstuvwxyz"

\* the class [a-zA-Z0-9_"] on lower-cased text
IsIdentChar(c) ==
  c \in {"a", "b", "c", "d", "e", "f", "g", "h", "i", "j", "k", "l", "m", "n", "o",
         "p", "q", "r", "s", "t", "u", "v", "w", "x", "y", "z", "0", "1", "2", "3",
         "4", "5", "6", "7", "8", "9", "_", "\""}

\* the class \s
IsSpace(c) == c \in {" ", "\n", "\t"}

\* s.startsWith(word, i), 1-based
At(s, i, word) ==
  i + Len(word) - 1 <= Len(s) /\ SubSeq(s, i, i + Len(word) - 1) = word

\* the least element of a non-empty set of positions
Least(positions) == CHOOSE p \in positions : \A q \in positions : p <= q

\* the end of the longest run of identifier characters starting at i,
\* i - 1 when there is none
IdentEnd(s, i) ==
  LET stops == {j \in i..Len(s) : ~IsIdentChar(Char(s, j))}
  IN  IF stops = {} THEN Len(s) ELSE Least(stops) - 1

SpaceEnd(s, i) ==
  LET stops == {j \in i..Len(s) : ~IsSpace(Char(s, j))}
  IN  IF stops = {} THEN Len(s) ELSE Least(stops) - 1

\* the least position >= i where word starts, 0 when none
IndexOf(s, word, i) ==
  LET hits == {p \in i..(Len(s) - Len(word) + 1) : At(s, p, word)}
  IN  IF hits = {} THEN 0 ELSE Least(hits)

\* String.prototype.toLowerCase on the characters i..j
RECURSIVE LowerCase(_, _, _)
LowerCase(s, i, j) ==
  IF i > j THEN ""
  ELSE IF i = j
    THEN LET k == IndexOf(UpperCaseLetters, Char(s, i), 1)
         IN  IF k = 0 THEN Char(s, i) ELSE Char(LowerCaseLetters, k)
    ELSE LowerCase(s, i, (i + j) \div 2) \o LowerCase(s, (i + j) \div 2 + 1, j)

\* .replace(/\/\*[\s\S]*?\*\//g, ''): block comments removed
RECURSIVE RemoveBlockComments(_, _)
RemoveBlockComments(s, i) ==
  LET open  == IndexOf(s, "/*", i)
      close == IF open = 0 THEN 0 ELSE IndexOf(s, "*/", open + 2)
  IN  IF close = 0 THEN SubSeq(s, i, Len(s))
      ELSE SubSeq(s, i, open - 1) \o RemoveBlockComments(s, close + 2)

\* .replace(/--.*$/gm, ''): from -- to the end of the line
RECURSIVE RemoveLineComments(_, _)
RemoveLineComments(s, i) ==
  LET dashes == IndexOf(s, "--", i)
      eol    == IF dashes = 0 THEN 0 ELSE IndexOf(s, "\n", dashes)
  IN  IF dashes = 0 THEN SubSeq(s, i, Len(s))
      ELSE IF eol = 0 THEN SubSeq(s, i, dashes - 1)
      ELSE SubSeq(s, i, dashes - 1) \o RemoveLineComments(s, eol)

\* .replace(/\s+/g, ' '): every run of white space becomes one blank
RECURSIVE CollapseSpace(_, _)
CollapseSpace(s, i) ==
  LET spaces == {p \in i..Len(s) : IsSpace(Char(s, p))}
  IN  IF spaces = {} THEN SubSeq(s, i, Len(s))
      ELSE SubSeq(s, i, Least(spaces) - 1) \o " "
             \o CollapseSpace(s, SpaceEnd(s, Least(spaces)) + 1)

\* normalizedSQL
NormalizeSQL(sql) ==
  The({ The({ The({ LowerCase(collapsed, 1, Len(collapsed))
                    : collapsed \in {CollapseSpace(noLine, 1)} })
              : noLine \in {RemoveLineComments(noBlock, 1)} })
        : noBlock \in {RemoveBlockComments(sql, 1)} })

\* .replace(/"/g, '')
RECURSIVE RemoveQuotes(_, _)
RemoveQuotes(s, i) ==
  LET quote == IndexOf(s, "\"", i)
  IN  IF quote = 0 THEN SubSeq(s, i, Len(s))
      ELSE SubSeq(s, i, quote - 1) \o RemoveQuotes(s, quote + 1)

\* normalizedSQL.match(/keyword\s+([a-zA-Z0-9_"]+)/g), each match already
\* reduced to match.split(/\s+/)[1]
RECURSIVE KeywordMatches(_, _, _)
KeywordMatches(s, keyword, i) ==
  LET p     == IndexOf(s, keyword, i)
      first == SpaceEnd(s, p + Len(keyword)) + 1
      last  == IdentEnd(s, first)
  IN  IF p = 0 THEN <<>>
      ELSE IF first > p + Len(keyword) /\ last >= first
        THEN <<SubSeq(s, first, last)>> \o KeywordMatches(s, keyword, last + 1)
        ELSE KeywordMatches(s, keyword, p + 1)

\* text.match(/([a-zA-Z0-9_"]+)\.([a-zA-Z0-9_"]+)/g) as pairs of the two
\* groups, from position i on
RECURSIVE QualifiedMatches(_, _)
QualifiedMatches(s, i) ==
  LET dots  == {d \in (i + 1)..(Len(s) - 1) :
                  /\ Char(s, d) = "."
                  /\ IsIdentChar(Char(s, d - 1))
                  /\ IsIdentChar(Char(s, d + 1))}
      dot   == Least(dots)
      heads == {h \in i..(dot - 1) : \A k \in h..(dot - 1) : IsIdentChar(Char(s, k))}
      last  == IdentEnd(s, dot + 1)
  IN  IF dots = {} THEN <<>>
      ELSE << <<SubSeq(s, Least(heads), dot - 1), SubSeq(s, dot + 1, last)>> >>
             \o QualifiedMatches(s, last + 1)

\* String.prototype.split on the first separator that starts at each
\* position, the separators tried in the order given
RECURSIVE Split(_, _, _)
Split(s, separators, start) ==
  LET hits == {p \in start..Len(s) : \E k \in 1..Len(separators) : At(s, p, separators[k])}
      p    == Least(hits)
      k    == Least({m \in 1..Len(separators) : At(s, p, separators[m])})
  IN  IF hits = {} THEN <<SubSeq(s, start, Len(s))>>
      ELSE <<SubSeq(s, start, p - 1)>> \o Split(s, separators, p + Len(separators[k]))

\* the capture of normalizedSQL.match(/select\s+(.*?)\s+from/), "" when
\* there is no match; white space is single blanks after normalisation
SelectList(s) ==
  LET starts == {p \in 1..Len(s) : At(s, p, "select ") /\ IndexOf(s, " from", p + 7) # 0}
  IN  IF starts = {} THEN ""
      ELSE SubSeq(s, Least(starts) + 7, IndexOf(s, " from", Least(starts) + 7) - 1)

\* the capture of normalizedSQL.match(/where\s+(.*?)(?:order by|group by|limit|$)/i)
WhereClause(s) ==
  LET p == IndexOf(s, "where ", 1)
      stops == {q \in {IndexOf(s, "order by", p + 6), IndexOf(s, "group by", p + 6),
                       IndexOf(s, "limit", p + 6)} : q # 0}
  IN  IF p = 0 THEN ""
      ELSE IF stops = {} THEN SubSeq(s, p + 6, Len(s))
      ELSE SubSeq(s, p + 6, Least(stops) - 1)

\* if (!result[tableName]) result[tableName] = []
AddTable(result, tableName) ==
  IF \E k \in 1..Len(result) : result[k].table = tableName THEN result
  ELSE Append(result, [table |-> tableName, columns |-> <<>>])

\* the same, then push columnName unless it is included
AddColumn(result, tableName, columnName) ==
  LET added == AddTable(result, tableName)
      k == CHOOSE k \in 1..Len(added) : added[k].table = tableName
  IN  IF columnName \in Range(added[k].columns) THEN added
      ELSE [added EXCEPT ![k].columns = Append(@, columnName)]

RECURSIVE AddTables(_, _)
AddTables(result, matches) ==
  IF matches = <<>> THEN result
  ELSE LET tableName == RemoveQuotes(Head(matches), 1)
       IN  AddTables(IF tableName # "" THEN AddTable(result, tableName) ELSE result,
                     Tail(matches))

RECURSIVE AddColumns(_, _)
AddColumns(result, pairs) ==
  IF pairs = <<>> THEN result
  ELSE AddColumns(AddColumn(result, RemoveQuotes(Head(pairs)[1], 1),
                            RemoveQuotes(Head(pairs)[2], 1)),
                  Tail(pairs))

\* the first qualified match of each piece (select list) or all of them
\* (where clause)
RECURSIVE PiecesMatches(_, _)
PiecesMatches(pieces, all) ==
  IF pieces = <<>> THEN <<>>
  ELSE LET found == QualifiedMatches(Head(pieces), 1)
       IN  (IF all \/ found = <<>> THEN found ELSE <<found[1]>>)
             \o PiecesMatches(Tail(pieces), all)

\* extractTablesAndColumnsFromSQL(sql)
extractTablesAndColumnsFromSQL(sql) ==
  The({ LET tables == AddTables(<<>>, KeywordMatches(normalizedSQL, "from", 1)
                                        \o KeywordMatches(normalizedSQL, "join", 1))
            selected == SelectList(normalizedSQL)
            withSelect ==
              IF selected = "" THEN tables
              ELSE AddColumns(tables,
                              PiecesMatches(Split(selected, <<",">>, 1), FALSE))
            where == WhereClause(normalizedSQL)
        IN  IF where = "" THEN withSelect
            ELSE AddColumns(withSelect,
                            PiecesMatches(Split(where, <<"and", "or">>, 1), TRUE))
        : normalizedSQL \in {NormalizeSQL(sql)} })


\* the statement of the spec's example
ExampleSQL ==
  "SELECT u.id, u.name FROM users u JOIN orders o ON u.id = o.user_id WHERE o.status = 'paid'"

\* a statement with comments, line breaks and runs of blanks
CommentSQL ==
  "select id -- from atable\nfrom users /* join other */\n  where   users.id = 1"

\* SQL texts over the tables users and orders, with and without aliases,
\* quoted names, comments and line breaks
SqlTexts ==
  { "SELECT " \o list \o " FROM " \o from \o join \o where :
      list \in {"*", "id", "u.id, u.name", "users.id", "orders.total, users.name"},
      from \in {"users", "users u", "\"Users\" u", "orders"},
      join \in {"", " JOIN orders o ON u.id = o.user_id",
                " join users on users.id = orders.user_id"},
      where \in {"", " WHERE o.status = 'paid'",
                 " where users.id = 1 and users.name = 'x' limit 5",
                 " WHERE orders.status = 'x'"} }
    \cup
  { ExampleSQL,
    CommentSQL,
    "not sql at all", "" }

\* the tables these statements name
NamedTables == {"users", "orders"}

\* extractTablesAndColumnsFromSQL(sql), as the learning task calls it; one
\* call per behaviour
ExtractSqlCall(sql) ==
  /\ ~sqlArgs.called
  /\ sqlArgs' = [called |-> TRUE, sql |-> sql]
  /\ tablesAndColumns' = extractTablesAndColumnsFromSQL(sql)
  /\ UNCHANGED <<db, heap, nextRef, currentSchema, builderVars, uuid, now, initPc,
                 extractVars, idb, mergeVars, cArgs, compressed, iArgs, inferred,
                 regVars, metadata>>

ExtractSqlNext ==
  /\ ~sqlArgs.called
  /\ \E sql \in SqlTexts : ExtractSqlCall(sql)

ExtractSqlSpec == Init /\ [][ExtractSqlNext]_vars

Keys(result) == {result[k].table : k \in 1..Len(result)}

\* C19: the keys of the mapping are the table names that follow FROM and
\* JOIN, {users, orders} for the example; no key is an alias or a fragment
\* of an identifier
KeysAreTableNames ==
  sqlArgs.called =>
    /\ Keys(tablesAndColumns) \subseteq NamedTables
    /\ sqlArgs.sql = ExampleSQL => Keys(tablesAndColumns) = {"users", "orders"}


\* the tables of the snapshot before the last merge (none when there was
\* no snapshot)
TablesBefore == IF mPrev.isNull THEN <<>> ELSE mPrev.tables

\* the change report expected of the last merge: per table of the
\* observation that the snapshot has, the names of its columns the
\* snapshot's table lacks
IntroducedColumns ==
  { [tableId |-> t.id,
     columns |-> Names(SelectSeq(t.columns, LAMBDA col :
                   col.id \notin Ids(TablesBefore[FindById(TablesBefore, t.id)].columns)))] :
      t \in { u \in Range(mLast.obs.tables) : FindById(TablesBefore, u.id) # 0 } }

\* a table of the snapshot matches the incoming one: by id, or else by name
\* ignoring case
InSnapshot(t) ==
  \/ t.id \in Ids(TablesBefore)
  \/ \E i \in 1..Len(TablesBefore) :
       toLowerCase(TablesBefore[i].name) = toLowerCase(t.name)

\* C20: diffSchema applied to merge(S, O) by the Builder holding S reports
\* as new exactly the tables of O that S lacks and the columns of O that
\* S's table lacks, and reports no table and no column as removed
DiffReportsIntroduced ==
  mLast.kind = "merge" =>
    /\ mDiff.newTables =
         Names(SelectSeq(mLast.obs.tables, LAMBDA t : ~InSnapshot(t)))
    /\ Range(mDiff.newColumns) = {e \in IntroducedColumns : Len(e.columns) > 0}
    /\ mDiff.removedTables = <<>>
    /\ mDiff.removedColumns = <<>>

(***************************************************************************)
(* The Builders of the application: the schema store's getSchemaBuilder    *)
(* and the useSchema hook each construct SchemaBuilder objects; every      *)
(* object has its own currentSchema, isBuilding and learningQueue and all  *)
(* of them read and write the same 'schema' object store.                  *)
(***************************************************************************)

\* the request of Builder b on the object store
Request(b, kind) == [instance |-> b, kind |-> kind]

\* transactions run in creation order: a read waits for the writes before
\* it, a write (the db.put of a task) for everything before it
RegistryReady(s, request) ==
  \E k \in 1..Len(s.transactions) :
    /\ s.transactions[k] = request
    /\ \A m \in 1..(k - 1) : s.transactions[m].kind # "task"
    /\ request.kind = "task" => k = 1

\* the instance numbers not used yet
Unconstructed == {b \in Instances : instances[b].databaseId = 0}

\* new SchemaBuilder(databaseId) followed by initialize() up to its await
Construct(databaseId) ==
  [NoInstance EXCEPT !.databaseId = databaseId, !.initPc = "loading"]

\* one turn of the while loop of processLearningQueue of the Builder b whose
\* fields are inst: [instance, idb, uuid] after the turn
RegistryLoop(b, inst, idb1) ==
  IF inst.learningQueue = <<>>
    THEN [instance |-> [inst EXCEPT !.isBuilding = FALSE], idb |-> idb1, uuid |-> uuid]
    ELSE The({ [instance |->
                  [inst EXCEPT
                     !.isBuilding = TRUE,
                     !.learningQueue = shift(@).rest,
                     !.currentSchema.tables = r.tables,
                     !.inFlight =
                        [running |-> TRUE,
                         put |-> [inst.currentSchema EXCEPT !.tables = r.tables,
                                                            !.lastUpdated = now]]],
                idb |-> IdbIssue(idb1, Request(b, "task")),
                uuid |-> r.uuid]
               : r \in {learningTask(inst.currentSchema.tables,
                                     shift(inst.learningQueue).task, uuid)} })

\* useSchemaStore.getSchemaBuilder(databaseId)
GetSchemaBuilder(databaseId) ==
  /\ IF builders[databaseId] # 0
       THEN UNCHANGED <<builders, instances, idb>>
       ELSE /\ Unconstructed # {}
            /\ LET b == Least(Unconstructed)
               IN  /\ instances' = [instances EXCEPT ![b] = Construct(databaseId)]
                   /\ builders' = [builders EXCEPT ![databaseId] = b]
                   /\ idb' = IdbIssue(idb, Request(b, "init"))
  /\ UNCHANGED <<hookBuilders, schemaStore, metadata, uuid>>
  /\ UNCHANGED <<db, heap, nextRef, currentSchema, builderVars, now, initPc,
                 extractVars, mergeVars, fnVars>>

\* a component mounts useSchema(databaseId): useMemo constructs a Builder,
\* the effect calls initialize()
UseSchema(h, databaseId) ==
  /\ hookBuilders[h] = 0
  /\ Unconstructed # {}
  /\ LET b == Least(Unconstructed)
     IN  /\ instances' = [instances EXCEPT ![b] = Construct(databaseId)]
         /\ hookBuilders' = [hookBuilders EXCEPT ![h] = b]
         /\ idb' = IdbIssue(idb, Request(b, "init"))
  /\ UNCHANGED <<builders, schemaStore, metadata, uuid>>
  /\ UNCHANGED <<db, heap, nextRef, currentSchema, builderVars, now, initPc,
                 extractVars, mergeVars, fnVars>>

\* initialize() of the Builder b: getSchema resolved
RegistryInitializeDone(b) ==
  /\ instances[b].initPc = "loading"
  /\ RegistryReady(idb, Request(b, "init"))
  /\ instances' = [instances EXCEPT
                     ![b].initPc = "done",
                     ![b].currentSchema = getSchema(schemaStore[instances[b].databaseId])]
  /\ idb' = IdbSettle(idb, Request(b, "init"))
  /\ UNCHANGED <<builders, hookBuilders, schemaStore, metadata, uuid>>
  /\ UNCHANGED <<db, heap, nextRef, currentSchema, builderVars, now, initPc,
                 extractVars, mergeVars, fnVars>>

\* initialize() of the Builder b: getSchema threw
RegistryInitializeFail(b) ==
  /\ instances[b].initPc = "loading"
  /\ instances' = [instances EXCEPT ![b].initPc = "failed"]
  /\ idb' = IdbSettle(idb, Request(b, "init"))
  /\ UNCHANGED <<builders, hookBuilders, schemaStore, metadata, uuid>>
  /\ UNCHANGED <<db, heap, nextRef, currentSchema, builderVars, now, initPc,
                 extractVars, mergeVars, fnVars>>

\* learnFromQuery(sql, resultColumns, resultData) on the Builder b
RegistryLearn(b, q) ==
  /\ instances[b].databaseId # 0
  /\ Len(instances[b].learningQueue) < MaxQueued
  /\ IF instances[b].currentSchema.isNull
       THEN /\ instances' = [instances EXCEPT ![b].dropped = TRUE]
            /\ UNCHANGED <<idb, uuid>>
       ELSE LET queued == [instances[b] EXCEPT !.learningQueue = Append(@, q)]
            IN  IF processLearningQueueEnters(queued.isBuilding, queued.learningQueue)
                  THEN \E r \in {RegistryLoop(b, queued, idb)} :
                         /\ instances' = [instances EXCEPT ![b] = r.instance]
                         /\ idb' = r.idb
                         /\ uuid' = r.uuid
                  ELSE /\ instances' = [instances EXCEPT ![b] = queued]
                       /\ UNCHANGED <<idb, uuid>>
  /\ UNCHANGED <<builders, hookBuilders, schemaStore, metadata>>
  /\ UNCHANGED <<db, heap, nextRef, currentSchema, builderVars, now, initPc,
                 extractVars, mergeVars, fnVars>>

\* the db.put of the task the Builder b awaits succeeded
RegistryTaskSaveOk(b) ==
  /\ instances[b].inFlight.running
  /\ RegistryReady(idb, Request(b, "task"))
  /\ schemaStore' = [schemaStore EXCEPT ![instances[b].databaseId] =
                       saveSchema(instances[b].inFlight.put, now)]
  /\ \E r \in {RegistryLoop(b, [instances[b] EXCEPT
                                   !.currentSchema = instances[b].inFlight.put,
                                   !.inFlight = NoTask],
                            IdbSettle(idb, Request(b, "task")))} :
       /\ instances' = [instances EXCEPT ![b] = r.instance]
       /\ idb' = r.idb
       /\ uuid' = r.uuid
  /\ UNCHANGED <<builders, hookBuilders, metadata>>
  /\ UNCHANGED <<db, heap, nextRef, currentSchema, builderVars, now, initPc,
                 extractVars, mergeVars, fnVars>>

\* the db.put failed: the task's catch logs it, the loop goes on
RegistryTaskSaveFail(b) ==
  /\ instances[b].inFlight.running
  /\ \E r \in {RegistryLoop(b, [instances[b] EXCEPT !.inFlight = NoTask],
                            IdbSettle(idb, Request(b, "task")))} :
       /\ instances' = [instances EXCEPT ![b] = r.instance]
       /\ idb' = r.idb
       /\ uuid' = r.uuid
  /\ UNCHANGED <<builders, hookBuilders, schemaStore, metadata>>
  /\ UNCHANGED <<db, heap, nextRef, currentSchema, builderVars, now, initPc,
                 extractVars, mergeVars, fnVars>>

\* the learnFromQuery arguments the components pass: the query with result
\* rows
RegistryQueries == {q \in Queries : Len(q.resultData) > 0}

RegistryNext ==
  \/ \E databaseId \in DatabaseIds : GetSchemaBuilder(databaseId)
  \/ \E h \in Hooks, databaseId \in DatabaseIds : UseSchema(h, databaseId)
  \/ \E b \in Instances : RegistryInitializeDone(b)
  \/ \E b \in Instances : RegistryInitializeFail(b)
  \/ \E b \in Instances, q \in RegistryQueries : RegistryLearn(b, q)
  \/ \E b \in Instances : RegistryTaskSaveOk(b)
  \/ \E b \in Instances : RegistryTaskSaveFail(b)
  \/ OpenDone

RegistrySpec == Init /\ [][RegistryNext]_vars

\* the Builders a component has obtained for the database id
BuildersFor(databaseId) ==
  ({builders[databaseId]} \ {0}) \cup
  {hookBuilders[h] : h \in {g \in Hooks : hookBuilders[g] # 0 /\
                                          instances[hookBuilders[g]].databaseId = databaseId}}

\* the Builders with a learning task in flight on the database id's snapshot
InFlight(databaseId) ==
  {b \in Instances : instances[b].databaseId = databaseId /\ instances[b].inFlight.running}

\* C21: there is one Builder per database id: the schema store and the
\* useSchema hook obtain the same SchemaBuilder for a database id, and no two
\* learning tasks on the persisted snapshot of one database id are in flight
\* at once
OneBuilderPerDatabase ==
  \A databaseId \in DatabaseIds :
    /\ Cardinality(BuildersFor(databaseId)) <= 1
    /\ Cardinality(InFlight(databaseId)) <= 1


\* C22: the learning queue is first in, first out: learning tasks start in
\* the order in which the learnFromQuery calls were made (calls are numbered
\* in the order they are made), tasks queued while the drain loop runs
\* included
LearningQueueFifo ==
  \A i \in 1..Len(started) : \A j \in 1..Len(started) :
    i < j => started[i] < started[j]

\* three accepted calls, the second and the third made while the first task
\* awaited its db.put, all three tasks started
LearningQueueFifoWitness ==
  /\ started = <<1, 2, 3>>
  /\ upd[2].by = 1
  /\ upd[3].by = 1
  /\ pc[3] = "returned"
  /\ tstate[1] \in {"ok", "failed"}
  /\ tstate[2] \in {"ok", "failed"}


(***************************************************************************)
(* removeTable of the schema store, applied in turn with merges and        *)
(* learning tasks to one persisted snapshot                                *)
(***************************************************************************)

\* the table ids removeTable is called with
RemovableTables == {1, 2, 51}

\* the synchronous body of removeTable(databaseId, tableId) between the read
\* and the save
removeTable(schema, tableId, t) ==
  [schema EXCEPT
     !.tables = SelectSeq(@, LAMBDA table : table.id # tableId),
     !.relationships =
        SelectSeq(@, LAMBDA rel : rel.sourceTableId # tableId /\ rel.targetTableId # tableId),
     !.lastUpdated = t]

\* removeTable(databaseId, tableId) with the read and the save succeeding,
\* the store holding mS; with no snapshot it returns null
RemoveOp(tableId) ==
  /\ mCount < MaxOps
  /\ mS' = IF getSchema(mS).isNull THEN mS
           ELSE saveSchema(removeTable(getSchema(mS), tableId, now), now)
  /\ mPrev' = mS
  /\ mLast' = [kind |-> "remove", obs |-> NullSchema, query |-> NoQuery,
               repeat |-> FALSE, tableId |-> tableId]
  /\ mCount' = mCount + 1
  /\ mDiff' = NoDiff
  /\ UNCHANGED <<db, heap, nextRef, currentSchema, builderVars, uuid, now, initPc,
                 extractVars, idb, fnVars, regVars, metadata>>

StoreNext ==
  \/ \E newSchema \in Observations : MergeOp(newSchema)
  \/ \E q \in LearnQueries : LearnOp(q)
  \/ \E tableId \in RemovableTables : RemoveOp(tableId)

StoreSpec == MergeInit /\ [][StoreNext]_vars

\* C23: in every persisted snapshot reached through merges of extracted
\* schemas, learning tasks and removeTable, the source and the target table
\* of every relationship are tables of the snapshot; after removeTable(t) no
\* relationship has t as source or target
RelationshipIntegrity ==
  ~mS.isNull =>
    /\ \A k \in 1..Len(mS.relationships) :
         /\ mS.relationships[k].sourceTableId \in Ids(mS.tables)
         /\ mS.relationships[k].targetTableId \in Ids(mS.tables)
    /\ mLast.kind = "remove" =>
         \A k \in 1..Len(mS.relationships) :
           /\ mS.relationships[k].sourceTableId # mLast.tableId
           /\ mS.relationships[k].targetTableId # mLast.tableId


\* C24: in every result of compressSchema, trimmed or not, the source and
\* the target of each relationship are names of tables of the result: a
\* table that was dropped takes its relationships with it
RelationshipsWithinTables ==
  cArgs.called =>
    \A k \in 1..Len(compressed.relationships) :
      /\ compressed.relationships[k].source \in Range(TableNames(compressed.tables))
      /\ compressed.relationships[k].target \in Range(TableNames(compressed.tables))


\* the compressed schema before trimToTokenLimit: the call with no token
\* budget
PreTrim ==
  compressSchema(cArgs.schema, cArgs.referencedTables,
                 [cArgs.options EXCEPT !.maxTokens = 0])

IsKey(column) == column.isPrimaryKey \/ column.isForeignKey

\* C25: token trimming removes no key column from a table it keeps: every
\* table of the result is a table of the schema before trimming (tables are
\* dropped from the end), and each of its columns that was a primary or a
\* foreign key before trimming is still among its columns
TrimKeepsKeyColumns ==
  (cArgs.called /\ ~cArgs.schema.isNull) =>
    \A i \in 1..Len(compressed.tables) :
      /\ i <= Len(PreTrim.tables)
      /\ compressed.tables[i].name = PreTrim.tables[i].name
      /\ \A j \in 1..Len(PreTrim.tables[i].columns) :
           IsKey(PreTrim.tables[i].columns[j]) =>
             PreTrim.tables[i].columns[j] \in Range(compressed.tables[i].columns)

\* the budget made the trim cut columns of a table that has key columns and
\* others
TrimKeepsKeyColumnsWitness ==
  /\ cArgs.called
  /\ ~cArgs.schema.isNull
  /\ \E i \in 1..Len(compressed.tables) :
       /\ Len(compressed.tables[i].columns) < Len(PreTrim.tables[i].columns)
       /\ \E j \in 1..Len(PreTrim.tables[i].columns) : IsKey(PreTrim.tables[i].columns[j])
       /\ \E j \in 1..Len(PreTrim.tables[i].columns) : ~IsKey(PreTrim.tables[i].columns[j])


\* learnFromQuery arguments whose result headers mix unqualified and
\* qualified names, or name two tables
HeaderQueries ==
  { [tablesAndColumns |-> << [table |-> "users", columns |-> <<"name">>] >>,
     resultColumns |-> << <<"count">>, <<"users", "name">> >>,
     resultData |-> << <<"n1", "sabc">>, <<"n2", "sabc">> >>],
    [tablesAndColumns |-> << [table |-> "users", columns |-> <<"email">>],
                             [table |-> "orders", columns |-> <<"total">>] >>,
     resultColumns |-> << <<"users", "email">>, <<"orders", "total">> >>,
     resultData |-> << <<"sabc", "n1">> >>],
    [tablesAndColumns |-> << [table |-> "users", columns |-> <<"age", "nick">>] >>,
     resultColumns |-> << <<"users", "age">>, <<"users", "nick">> >>,
     resultData |-> << <<"n1", "sabc">>, <<"n2", "null">> >>] }

SampleNext ==
  \E q \in LearnQueries \cup HeaderQueries : LearnOp(q)

SampleSpec == MergeInit /\ [][SampleNext]_vars

\* the column a qualified header names, as it was before the learning task
\* sampled it: the column of the snapshot before the task, or the column
\* ensureColumnExists pushed
BeforeSampling(parts, after) ==
  LET t0 == FindByName(mPrev.tables, parts[1])
      c0 == IF t0 = 0 THEN 0 ELSE FindByName(mPrev.tables[t0].columns, parts[2])
  IN  IF c0 # 0 THEN mPrev.tables[t0].columns[c0]
      ELSE [after EXCEPT !.type = "unknown", !.isNullable = TRUE,
                         !.hasExamples = FALSE, !.examples = <<>>]

\* C26: after a learning task, the column named by the qualified header at
\* position k of resultColumns, when its type was unknown, has the type,
\* examples and nullability inferred from the position-k cells of the first
\* ten result rows
SampledAtHeaderPosition ==
  (mLast.kind = "learn" /\ Len(mLast.query.resultData) > 0) =>
    \A k \in 1..Len(mLast.query.resultColumns) :
      LET parts == mLast.query.resultColumns[k]
      IN  Len(parts) = 2 =>
            LET t == FindByName(mS.tables, parts[1])
                c == IF t = 0 THEN 0 ELSE FindByName(mS.tables[t].columns, parts[2])
            IN  /\ t # 0
                /\ c # 0
                /\ LET before == BeforeSampling(parts, mS.tables[t].columns[c])
                   IN  before.type = "unknown" =>
                         mS.tables[t].columns[c] =
                           InferColumn(before, SampleValues(mLast.query.resultData, k))


\* C27: when the promise of a learnFromQuery call has resolved, the learning
\* task that call enqueued has run to its end: it succeeded or it failed
ResolvedAfterOwnTask ==
  \A c \in Calls :
    (pc[c] = "returned" /\ tstate[c] # "none") => tstate[c] \in {"ok", "failed"}


\* the tables a learning task upserts: the keys of tablesAndColumns and the
\* table names of the qualified result headers
UpsertedTables(q) ==
  {q.tablesAndColumns[i].table : i \in 1..Len(q.tablesAndColumns)} \cup
  (IF Len(q.resultData) = 0 THEN {}
   ELSE {q.resultColumns[k][1] :
           k \in {j \in 1..Len(q.resultColumns) : Len(q.resultColumns[j]) = 2}})

\* the learning tasks that were in flight during the extractSchema call
Overlapping == {h \in Calls : upd[h].during} \cup xlog.overlap

\* C28: once an extractSchema refresh and a learning task that was in flight
\* during it have both finished, the snapshot in memory and the stored one
\* have every table the refresh merged and every table the task upserted
OverlapLosesNothing ==
  \A h \in Overlapping :
    (xpc = "idle" /\ xlog.done /\ tstate[h] = "ok") =>
      \A name \in UpsertedTables(qOf[h]) \cup Range(Names(xlog.mem.tables)) :
        /\ FindByName(getCurrentSchema.tables, name) # 0
        /\ FindByName(db.tables, name) # 0


\* C29: on the Builder getSchemaBuilder returned for a database id that has
\* a stored snapshot, no learnFromQuery call has returned without queueing
\* its learning task
NoCallDropped ==
  \A databaseId \in DatabaseIds :
    (builders[databaseId] # 0 /\ ~schemaStore[databaseId].isNull) =>
      ~instances[builders[databaseId]].dropped


\* useSchemaStore.startSchemaExtraction(databaseId) up to the first await of
\* builder.extractSchema(true): the metadata is marked in progress,
\* getSchemaBuilder constructs the Builder and calls initialize() when the
\* store has none, and extractSchema runs into extractAndParseSchema, which
\* returns null at once when canExtractSchema() is false
StartSchemaExtraction(canExtract) ==
  /\ xpc = "idle"
  /\ xcount < MaxExtracts
  /\ xcount' = xcount + 1
  /\ xlog' = [NoXLog EXCEPT !.before = db,
                            !.outcome = IF canExtract THEN "pending" ELSE "resolved",
                            !.overlap = {c \in Calls : tstate[c] = "running"},
                            !.viaStore = TRUE,
                            !.metadata = metadata]
  /\ xlocal' = NoXLocal
  /\ xpc' = IF canExtract THEN "extract" ELSE "idle"
  /\ metadata' =
       IF canExtract THEN [metadata EXCEPT !.isExtractionInProgress = TRUE]
       ELSE completeSchemaExtraction(metadata, ~currentSchema.isNull, now)
  /\ initPc' = IF initPc = "new" THEN "loading" ELSE initPc
  /\ idb' = IF initPc = "new" THEN IdbIssue(idb, "init") ELSE idb
  /\ UNCHANGED <<db, heap, nextRef, currentSchema, builderVars, uuid, now>>
  /\ UNCHANGED <<mergeVars, fnVars, regVars>>

StoreExtractNext ==
  \/ \E ce \in BOOLEAN : StartSchemaExtraction(ce)
  \/ InitializeCall
  \/ InitializeDone
  \/ InitializeFail
  \/ OpenDone
  \/ Tick
  \/ \E e \in Extractions : ExtractRawDone(e)
  \/ ExtractRawFail
  \/ ExtractSaveOk
  \/ ExtractSaveFail
  \/ MergeReadOk
  \/ MergeReadFail
  \/ MergeSaveOk
  \/ MergeSaveFail

StoreExtractSpec == Init /\ [][StoreExtractNext]_vars

\* C30: once a startSchemaExtraction call has settled, isExtractionInProgress
\* is false; extractionCount is one more than before the call and
\* lastExtracted is updated when the fresh extraction succeeded (the page's
\* schema was extracted and persisted), and both are as before the call when
\* it did not
MetadataCountsFreshExtractions ==
  (xlog.viaStore /\ xpc = "idle") =>
    /\ ~metadata.isExtractionInProgress
    /\ IF xlog.done
         THEN /\ metadata.extractionCount = xlog.metadata.extractionCount + 1
              /\ metadata.lastExtracted > xlog.metadata.lastExtracted
         ELSE /\ metadata.extractionCount = xlog.metadata.extractionCount
              /\ metadata.lastExtracted = xlog.metadata.lastExtracted

====
